---- MODULE Spec2Model ----
(***************************************************************************)
(* Model of the Felo rating engine of src/felo_rating.py: Fencer, Bout,     *)
(* set_preliminary_felo_ratings, adopt_preliminary_felo_ratings and         *)
(* calculate_felo_ratings with its bootstrapping loop.                      *)
(*                                                                          *)
(* The engine is Python 2 code (Bout.__cmp__, Fencer.__cmp__, ugettext,     *)
(* "except E, e" in its caller felo.py), so list.sort() is the Python 2     *)
(* sort driven by __cmp__.                                                  *)
(*                                                                          *)
(* Arithmetic.  The code computes with Python floats.  The model computes   *)
(* with fixed-point integers: ratings in thousandths of a rating point      *)
(* (Milli), weightings in thousandths of a 5-point bout (Milli), results    *)
(* and expectation values in millionths (Micro).  Every product is rounded  *)
(* to the nearest unit, half away from zero, so that x and -x round alike   *)
(* as they do in IEEE arithmetic.  Sums are exact.  10**(d/400) is          *)
(* tabulated (EloTable) every 5 rating points and interpolated linearly.    *)
(***************************************************************************)
EXTENDS Integers, Sequences, FiniteSets, TLC

Milli == 10 * 100
Micro == Milli * Milli

(***************************************************************************)
(* Bounds of the model.                                                    *)
(***************************************************************************)
MaxBouts == 3
MaxCycles == 3
ScenarioBouts == 12

(***************************************************************************)
(* Felo parameters, at the defaults of parse_felo_file.                    *)
(***************************************************************************)
k_factor_top_fencers == 25
felo_rating_top_fencers == 2400
k_factor_others == 32
k_factor_freshmen == 40
five_point_bouts_freshmen == 15
minimal_felo_rating == 1200
five_point_bouts_for_estimate == 10
weighting_team_bout == 1

(***************************************************************************)
(* Fixed-point helpers.                                                    *)
(***************************************************************************)
Abs(x) == IF x < 0 THEN -x ELSE x

Max(x, y) == IF x >= y THEN x ELSE y

\* a / b rounded to the nearest integer, half away from zero (b > 0).
RoundDiv(a, b) ==
  IF a >= 0 THEN (2 * a + b) \div (2 * b)
            ELSE -((2 * (-a) + b) \div (2 * b))

\* a * b / c rounded as RoundDiv, without forming a * b (b >= 0, c > 0).
MulDiv(a, b, c) ==
  LET m == Abs(a)
      q == m \div c
      r == m % c
      v == q * b + RoundDiv(r * b, c)
  IN  IF a < 0 THEN -v ELSE v

(***************************************************************************)
(* apparent_expectation_values: 101 rows (true expectation 0, 0.01, .. 1)  *)
(* of 15 columns (bouts fenced to 1 .. 15 points), in millionths.          *)
(***************************************************************************)
apparent_expectation_values ==
  <<
   <<0, 0, 0, 0, 0, 0, 0, 0, 0, 0, 0, 0, 0, 0, 0>>,
   <<10000, 6766, 7517, 8013, 8345, 8582, 8760, 8898, 9008, 9098, 9174, 9237, 9292, 9339, 9381>>,
   <<20000, 13728, 15075, 16054, 16715, 17186, 17539, 17814, 18033, 18212, 18362, 18488, 18596, 18690, 18772>>,
   <<30000, 20882, 22684, 24125, 25108, 25811, 26338, 26747, 27074, 27341, 27564, 27752, 27913, 28053, 28175>>,
   <<40000, 28224, 30354, 32227, 33527, 34459, 35157, 35699, 36132, 36486, 36780, 37029, 37242, 37427, 37589>>,
   <<50000, 35750, 38094, 40365, 41972, 43128, 43996, 44669, 45206, 45645, 46011, 46320, 46584, 46813, 47014>>,
   <<60000, 43456, 45912, 48542, 50444, 51821, 52854, 53657, 54298, 54821, 55256, 55624, 55939, 56212, 56450>>,
   <<70000, 51338, 53817, 56763, 58945, 60537, 61734, 62664, 63406, 64012, 64516, 64942, 65306, 65622, 65897>>,
   <<80000, 59392, 61814, 65033, 67478, 69277, 70634, 71689, 72531, 73218, 73790, 74273, 74686, 75044, 75356>>,
   <<90000, 67614, 69910, 73358, 76045, 78043, 79556, 80733, 81673, 82441, 83079, 83618, 84079, 84478, 84826>>,
   <<100000, 76000, 78112, 81743, 84650, 86836, 88500, 89797, 90833, 91679, 92382, 92976, 93484, 93924, 94308>>,
   <<110000, 84546, 86424, 90193, 93297, 95659, 97467, 98880, 100010, 100933, 101700, 102348, 102902, 103382, 103801>>,
   <<120000, 93248, 94851, 98715, 101989, 104514, 106459, 107984, 109205, 110204, 111034, 111734, 112334, 112852, 113305>>,
   <<130000, 102102, 103397, 107314, 110731, 113404, 115477, 117109, 118419, 119491, 120382, 121134, 121778, 122335, 122821>>,
   <<140000, 111104, 112066, 115996, 119529, 122332, 124524, 126257, 127652, 128795, 129746, 130549, 131235, 131829, 132348>>,
   <<150000, 120250, 120860, 124767, 128387, 131302, 133602, 135430, 136906, 138116, 139125, 139977, 140706, 141337, 141887>>,
   <<160000, 129536, 129782, 133631, 137310, 140318, 142714, 144629, 146181, 147456, 148520, 149420, 150190, 150856, 151438>>,
   <<170000, 138958, 138834, 142594, 146304, 149385, 151863, 153857, 155479, 156816, 157933, 158878, 159688, 160389, 161000>>,
   <<180000, 148512, 148018, 151661, 155374, 158509, 161055, 163117, 164803, 166196, 167363, 168352, 169200, 169934, 170575>>,
   <<190000, 158194, 157335, 160835, 164527, 167693, 170292, 172413, 174154, 175600, 176813, 177843, 178727, 179493, 180162>>,
   <<200000, 168000, 166784, 170121, 173767, 176944, 179580, 181747, 183537, 185028, 186284, 187352, 188269, 189065, 189761>>,
   <<210000, 177926, 176367, 179523, 183099, 186268, 188924, 191125, 192954, 194484, 195777, 196880, 197829, 198653, 199374>>,
   <<220000, 187968, 186082, 189043, 192529, 195669, 198329, 200552, 202409, 203972, 205296, 206429, 207406, 208256, 209001>>,
   <<230000, 198122, 195929, 198684, 202062, 205153, 207802, 210032, 211908, 213494, 214844, 216002, 217004, 217877, 218644>>,
   <<240000, 208384, 205908, 208449, 211700, 214726, 217347, 219571, 221455, 223056, 224424, 225603, 226625, 227518, 228304>>,
   <<250000, 218750, 216016, 218338, 221450, 224394, 226970, 229176, 231056, 232662, 234042, 235234, 236272, 237181, 237983>>,
   <<260000, 229216, 226251, 228354, 231313, 234160, 236678, 238852, 240716, 242318, 243701, 244901, 245949, 246870, 247683>>,
   <<270000, 239778, 236611, 238496, 241293, 244030, 246476, 248604, 250442, 252030, 253407, 254608, 255660, 256587, 257409>>,
   <<280000, 250432, 247094, 248764, 251393, 254008, 256370, 258440, 260240, 261804, 263167, 264361, 265411, 266339, 267165>>,
   <<290000, 261174, 257697, 259158, 261613, 264097, 266364, 268365, 270117, 271647, 272987, 274165, 275207, 276131, 276955>>,
   <<300000, 272000, 268416, 269676, 271955, 274301, 276462, 278385, 280078, 281564, 282873, 284029, 285054, 285968, 286785>>,
   <<310000, 282906, 279248, 280317, 282420, 284622, 286670, 288505, 290129, 291564, 292833, 293958, 294961, 295857, 296662>>,
   <<320000, 293888, 290188, 291079, 293006, 295061, 296989, 298729, 300277, 301652, 302873, 303960, 304933, 305806, 306592>>,
   <<330000, 304942, 301234, 301959, 303714, 305619, 307423, 309061, 310527, 311834, 313000, 314042, 314978, 315821, 316584>>,
   <<340000, 316064, 312380, 312953, 314541, 316296, 317973, 319505, 320882, 322115, 323220, 324211, 325104, 325912, 326644>>,
   <<350000, 327250, 323621, 324058, 325485, 327092, 328640, 330062, 331346, 332500, 333538, 334473, 335318, 336084, 336782>>,
   <<360000, 338496, 334954, 335269, 336542, 338004, 339423, 340733, 341921, 342994, 343960, 344834, 345626, 346346, 347003>>,
   <<370000, 349798, 346372, 346582, 347710, 349029, 350321, 351519, 352610, 353597, 354490, 355298, 356033, 356704, 357317>>,
   <<380000, 361152, 357871, 357991, 358982, 360165, 361332, 362419, 363411, 364312, 365128, 365870, 366545, 367162, 367728>>,
   <<390000, 372554, 369445, 369490, 370355, 371407, 372452, 373429, 374324, 375138, 375877, 376550, 377163, 377725, 378241>>,
   <<400000, 384000, 381088, 381074, 381822, 382749, 383677, 384547, 385346, 386074, 386736, 387339, 387890, 388396, 388861>>,
   <<410000, 395486, 392795, 392736, 393376, 394186, 395000, 395767, 396472, 397116, 397702, 398236, 398725, 399174, 399587>>,
   <<420000, 407008, 404559, 404470, 405011, 405710, 406416, 407084, 407698, 408259, 408771, 409238, 409665, 410057, 410419>>,
   <<430000, 418562, 416375, 416268, 416720, 417313, 417918, 418489, 419016, 419498, 419937, 420339, 420706, 421043, 421354>>,
   <<440000, 430144, 428237, 428122, 428493, 428988, 429495, 429975, 430419, 430824, 431194, 431531, 431840, 432124, 432386>>,
   <<450000, 441750, 440137, 440026, 440322, 440726, 441140, 441533, 441896, 442228, 442531, 442807, 443060, 443292, 443506>>,
   <<460000, 453376, 452070, 451970, 452200, 452516, 452842, 453151, 453437, 453699, 453937, 454155, 454354, 454536, 454705>>,
   <<470000, 465018, 464030, 463949, 464116, 464349, 464590, 464819, 465031, 465224, 465401, 465562, 465709, 465844, 465969>>,
   <<480000, 476672, 476009, 475952, 476061, 476214, 476373, 476525, 476665, 476792, 476909, 477015, 477112, 477201, 477283>>,
   <<490000, 488334, 488001, 487972, 488026, 488102, 488181, 488256, 488325, 488389, 488447, 488500, 488548, 488592, 488633>>,
   <<500000, 500000, 500000, 500000, 500000, 500000, 500000, 500000, 500000, 500000, 500000, 500000, 500000, 500000, 500000>>,
   <<510000, 511666, 511999, 512028, 511974, 511898, 511819, 511744, 511675, 511611, 511553, 511500, 511452, 511408, 511367>>,
   <<520000, 523328, 523991, 524048, 523939, 523786, 523627, 523475, 523335, 523208, 523091, 522985, 522888, 522799, 522717>>,
   <<530000, 534982, 535970, 536051, 535884, 535651, 535410, 535181, 534969, 534776, 534599, 534438, 534291, 534156, 534031>>,
   <<540000, 546624, 547930, 548030, 547800, 547484, 547158, 546849, 546563, 546301, 546063, 545845, 545646, 545464, 545295>>,
   <<550000, 558250, 559863, 559974, 559678, 559274, 558860, 558467, 558104, 557772, 557469, 557193, 556940, 556708, 556494>>,
   <<560000, 569856, 571763, 571878, 571507, 571012, 570505, 570025, 569581, 569176, 568806, 568469, 568160, 567876, 567614>>,
   <<570000, 581438, 583625, 583732, 583280, 582687, 582082, 581511, 580984, 580502, 580063, 579661, 579294, 578957, 578646>>,
   <<580000, 592992, 595441, 595530, 594989, 594290, 593584, 592916, 592302, 591741, 591229, 590762, 590335, 589943, 589581>>,
   <<590000, 604514, 607205, 607264, 606624, 605814, 605000, 604233, 603528, 602884, 602298, 601764, 601275, 600826, 600413>>,
   <<600000, 616000, 618912, 618926, 618178, 617251, 616323, 615453, 614654, 613926, 613264, 612661, 612110, 611604, 611139>>,
   <<610000, 627446, 630555, 630510, 629645, 628593, 627548, 626571, 625676, 624862, 624123, 623450, 622837, 622275, 621759>>,
   <<620000, 638848, 642129, 642009, 641018, 639835, 638668, 637581, 636589, 635688, 634872, 634130, 633455, 632838, 632272>>,
   <<630000, 650202, 653628, 653418, 652290, 650971, 649679, 648481, 647390, 646403, 645510, 644702, 643967, 643296, 642683>>,
   <<640000, 661504, 665046, 664731, 663458, 661996, 660577, 659267, 658079, 657006, 656040, 655166, 654374, 653654, 652997>>,
   <<650000, 672750, 676379, 675942, 674515, 672908, 671360, 669938, 668654, 667500, 666462, 665527, 664682, 663916, 663218>>,
   <<660000, 683936, 687620, 687047, 685459, 683704, 682027, 680495, 679118, 677885, 676780, 675789, 674896, 674088, 673356>>,
   <<670000, 695058, 698766, 698041, 696286, 694381, 692577, 690939, 689473, 688166, 687000, 685958, 685022, 684179, 683416>>,
   <<680000, 706112, 709812, 708921, 706994, 704939, 703011, 701271, 699723, 698348, 697127, 696040, 695067, 694194, 693408>>,
   <<690000, 717094, 720752, 719683, 717580, 715378, 713330, 711495, 709871, 708436, 707167, 706042, 705039, 704143, 703338>>,
   <<700000, 728000, 731584, 730324, 728045, 725699, 723538, 721615, 719922, 718436, 717127, 715971, 714946, 714032, 713215>>,
   <<710000, 738826, 742303, 740842, 738387, 735903, 733636, 731635, 729883, 728353, 727013, 725835, 724793, 723869, 723045>>,
   <<720000, 749568, 752906, 751236, 748607, 745992, 743630, 741560, 739760, 738196, 736833, 735639, 734589, 733661, 732835>>,
   <<730000, 760222, 763389, 761504, 758707, 755970, 753524, 751396, 749558, 747970, 746593, 745392, 744340, 743413, 742591>>,
   <<740000, 770784, 773749, 771646, 768687, 765840, 763322, 761148, 759284, 757682, 756299, 755099, 754051, 753130, 752317>>,
   <<750000, 781250, 783984, 781662, 778550, 775606, 773030, 770824, 768944, 767338, 765958, 764766, 763728, 762819, 762017>>,
   <<760000, 791616, 794092, 791551, 788300, 785274, 782653, 780429, 778545, 776944, 775576, 774397, 773375, 772482, 771696>>,
   <<770000, 801878, 804071, 801316, 797938, 794847, 792198, 789968, 788092, 786506, 785156, 783998, 782996, 782123, 781356>>,
   <<780000, 812032, 813918, 810957, 807471, 804331, 801671, 799448, 797591, 796028, 794704, 793571, 792594, 791744, 790999>>,
   <<790000, 822074, 823633, 820477, 816901, 813732, 811076, 808875, 807046, 805516, 804223, 803120, 802171, 801347, 800626>>,
   <<800000, 832000, 833216, 829879, 826233, 823056, 820420, 818253, 816463, 814972, 813716, 812648, 811731, 810935, 810239>>,
   <<810000, 841806, 842665, 839165, 835473, 832307, 829708, 827587, 825846, 824400, 823187, 822157, 821273, 820507, 819838>>,
   <<820000, 851488, 851982, 848339, 844626, 841491, 838945, 836883, 835197, 833804, 832637, 831648, 830800, 830066, 829425>>,
   <<830000, 861042, 861166, 857406, 853696, 850615, 848137, 846143, 844521, 843184, 842067, 841122, 840312, 839611, 839000>>,
   <<840000, 870464, 870218, 866369, 862690, 859682, 857286, 855371, 853819, 852544, 851480, 850580, 849810, 849144, 848562>>,
   <<850000, 879750, 879140, 875233, 871613, 868698, 866398, 864570, 863094, 861884, 860875, 860023, 859294, 858663, 858113>>,
   <<860000, 888896, 887934, 884004, 880471, 877668, 875476, 873743, 872348, 871205, 870254, 869451, 868765, 868171, 867652>>,
   <<870000, 897898, 896603, 892686, 889269, 886596, 884523, 882891, 881581, 880509, 879618, 878866, 878222, 877665, 877179>>,
   <<880000, 906752, 905149, 901285, 898011, 895486, 893541, 892016, 890795, 889796, 888966, 888266, 887666, 887148, 886695>>,
   <<890000, 915454, 913576, 909807, 906703, 904341, 902533, 901120, 899990, 899067, 898300, 897652, 897098, 896618, 896199>>,
   <<900000, 924000, 921888, 918257, 915350, 913163, 911500, 910203, 909167, 908321, 907618, 907024, 906516, 906076, 905692>>,
   <<910000, 932386, 930090, 926642, 923955, 921957, 920444, 919267, 918327, 917559, 916921, 916382, 915921, 915522, 915174>>,
   <<920000, 940608, 938186, 934967, 932522, 930723, 929366, 928311, 927469, 926782, 926210, 925727, 925314, 924956, 924644>>,
   <<930000, 948662, 946183, 943237, 941055, 939463, 938266, 937336, 936594, 935988, 935484, 935058, 934694, 934378, 934103>>,
   <<940000, 956544, 954088, 951458, 949556, 948179, 947145, 946343, 945702, 945179, 944744, 944376, 944061, 943789, 943550>>,
   <<950000, 964250, 961906, 959635, 958028, 956871, 956004, 955331, 954794, 954355, 953989, 953680, 953416, 953187, 952986>>,
   <<960000, 971776, 969646, 967773, 966473, 965541, 964843, 964301, 963868, 963514, 963220, 962971, 962758, 962573, 962411>>,
   <<970000, 979118, 977316, 975875, 974892, 974189, 973662, 973253, 972926, 972659, 972436, 972248, 972087, 971947, 971825>>,
   <<980000, 986272, 984925, 983946, 983285, 982814, 982461, 982187, 981967, 981788, 981638, 981512, 981404, 981310, 981228>>,
   <<990000, 993234, 992483, 991987, 991655, 991418, 991240, 991102, 990992, 990902, 990826, 990763, 990708, 990661, 990619>>,
   <<1000000, 1000000, 1000000, 1000000, 1000000, 1000000, 1000000, 1000000, 1000000, 1000000, 1000000, 1000000, 1000000, 1000000, 1000000>>
  >>

(***************************************************************************)
(* 1 / (1 + 10**(d/400.0)) in millionths for d = -1500, -1495, .. 1500     *)
(* rating points, d = felo_second - felo_first.                            *)
(***************************************************************************)
EloTable ==
  <<
   999822, 999817, 999812, 999806, 999801, 999795, 999789, 999783, 999776, 999770,
   999763, 999756, 999749, 999742, 999734, 999726, 999718, 999710, 999702, 999693,
   999684, 999675, 999665, 999655, 999645, 999635, 999624, 999613, 999602, 999590,
   999578, 999566, 999554, 999540, 999527, 999513, 999499, 999484, 999469, 999454,
   999438, 999422, 999405, 999387, 999369, 999351, 999332, 999313, 999293, 999272,
   999251, 999229, 999206, 999183, 999159, 999135, 999110, 999084, 999057, 999029,
   999001, 998972, 998942, 998911, 998879, 998847, 998813, 998778, 998743, 998706,
   998668, 998629, 998589, 998548, 998506, 998462, 998418, 998371, 998324, 998275,
   998225, 998173, 998120, 998065, 998009, 997951, 997891, 997830, 997766, 997701,
   997634, 997565, 997494, 997421, 997346, 997269, 997190, 997108, 997024, 996937,
   996848, 996756, 996662, 996564, 996464, 996362, 996256, 996147, 996035, 995919,
   995801, 995679, 995553, 995424, 995291, 995154, 995013, 994868, 994719, 994566,
   994408, 994246, 994079, 993907, 993730, 993548, 993361, 993168, 992970, 992767,
   992557, 992341, 992119, 991891, 991656, 991415, 991166, 990911, 990648, 990377,
   990099, 989813, 989518, 989216, 988904, 988584, 988255, 987916, 987567, 987209,
   986840, 986461, 986071, 985670, 985258, 984834, 984398, 983950, 983489, 983015,
   982528, 982027, 981512, 980982, 980438, 979878, 979303, 978711, 978103, 977478,
   976836, 976175, 975497, 974799, 974082, 973346, 972589, 971811, 971012, 970190,
   969347, 968480, 967589, 966674, 965734, 964769, 963778, 962759, 961713, 960640,
   959537, 958404, 957242, 956048, 954822, 953565, 952273, 950948, 949588, 948192,
   946760, 945290, 943782, 942236, 940649, 939022, 937353, 935641, 933886, 932086,
   930242, 928351, 926412, 924426, 922391, 920305, 918168, 915979, 913738, 911442,
   909091, 906684, 904220, 901698, 899117, 896477, 893775, 891011, 888184, 885294,
   882338, 879317, 876229, 873074, 869850, 866557, 863193, 859759, 856252, 852673,
   849020, 845294, 841492, 837615, 833662, 829633, 825526, 821341, 817079, 812738,
   808318, 803819, 799240, 794582, 789844, 785027, 780130, 775153, 770097, 764961,
   759747, 754454, 749083, 743635, 738109, 732507, 726830, 721078, 715253, 709355,
   703385, 697345, 691236, 685060, 678817, 672510, 666139, 659708, 653217, 646669,
   640065, 633408, 626699, 619941, 613137, 606288, 599397, 592466, 585499, 578497,
   571463, 564400, 557312, 550199, 543066, 535916, 528751, 521573, 514387, 507195,
   500000, 492805, 485613, 478427, 471249, 464084, 456934, 449801, 442688, 435600,
   428537, 421503, 414501, 407534, 400603, 393712, 386863, 380059, 373301, 366592,
   359935, 353331, 346783, 340292, 333861, 327490, 321183, 314940, 308764, 302655,
   296615, 290645, 284747, 278922, 273170, 267493, 261891, 256365, 250917, 245546,
   240253, 235039, 229903, 224847, 219870, 214973, 210156, 205418, 200760, 196181,
   191682, 187262, 182921, 178659, 174474, 170367, 166338, 162385, 158508, 154706,
   150980, 147327, 143748, 140241, 136807, 133443, 130150, 126926, 123771, 120683,
   117662, 114706, 111816, 108989, 106225, 103523, 100883, 98302, 95780, 93316,
   90909, 88558, 86262, 84021, 81832, 79695, 77609, 75574, 73588, 71649,
   69758, 67914, 66114, 64359, 62647, 60978, 59351, 57764, 56218, 54710,
   53240, 51808, 50412, 49052, 47727, 46435, 45178, 43952, 42758, 41596,
   40463, 39360, 38287, 37241, 36222, 35231, 34266, 33326, 32411, 31520,
   30653, 29810, 28988, 28189, 27411, 26654, 25918, 25201, 24503, 23825,
   23164, 22522, 21897, 21289, 20697, 20122, 19562, 19018, 18488, 17973,
   17472, 16985, 16511, 16050, 15602, 15166, 14742, 14330, 13929, 13539,
   13160, 12791, 12433, 12084, 11745, 11416, 11096, 10784, 10482, 10187,
   9901, 9623, 9352, 9089, 8834, 8585, 8344, 8109, 7881, 7659,
   7443, 7233, 7030, 6832, 6639, 6452, 6270, 6093, 5921, 5754,
   5592, 5434, 5281, 5132, 4987, 4846, 4709, 4576, 4447, 4321,
   4199, 4081, 3965, 3853, 3744, 3638, 3536, 3436, 3338, 3244,
   3152, 3063, 2976, 2892, 2810, 2731, 2654, 2579, 2506, 2435,
   2366, 2299, 2234, 2170, 2109, 2049, 1991, 1935, 1880, 1827,
   1775, 1725, 1676, 1629, 1582, 1538, 1494, 1452, 1411, 1371,
   1332, 1294, 1257, 1222, 1187, 1153, 1121, 1089, 1058, 1028,
   999, 971, 943, 916, 890, 865, 841, 817, 794, 771,
   749, 728, 707, 687, 668, 649, 631, 613, 595, 578,
   562, 546, 531, 516, 501, 487, 473, 460, 446, 434,
   422, 410, 398, 387, 376, 365, 355, 345, 335, 325,
   316, 307, 298, 290, 282, 274, 266, 258, 251, 244,
   237, 230, 224, 217, 211, 205, 199, 194, 188, 183,
   178
  >>

EloRange == 1500 * Milli

EloStep == 5 * Milli

\* expectation_first of set_preliminary_felo_ratings and expectation_value:
\* ratings in Milli, result in Micro.  Differences beyond the table's range
\* take the table's last value.
elo_expectation(felo_first, felo_second) ==
  LET d0 == felo_second - felo_first
      d == IF d0 > EloRange THEN EloRange
           ELSE IF d0 < -EloRange THEN -EloRange ELSE d0
      k == (d + EloRange) \div EloStep + 1
      frac == (d + EloRange) % EloStep
  IN  IF frac = 0 THEN EloTable[k]
      ELSE EloTable[k] + RoundDiv((EloTable[k + 1] - EloTable[k]) * frac, EloStep)

\* The column apparent_expectation_values[..][max_points - 1] as a 1-based
\* column: for max_points = 0 Python's index -1 is the last column.
bias_column(max_points) == IF max_points = 0 THEN 15 ELSE max_points

\* The winning-hit adjustment: linear interpolation between the rows
\* int(e*100) and int(e*100)+1.
bias_corrected(expectation_first, max_points) ==
  LET low == expectation_first \div 10000
      frac == expectation_first % 10000
      c == bias_column(max_points)
      lowv == apparent_expectation_values[low + 1][c]
      highv == apparent_expectation_values[low + 2][c]
  IN  RoundDiv((highv - lowv) * frac, 10000) + lowv

(***************************************************************************)
(* Bout: a record [date, index, first_fencer, second_fencer, points_first, *)
(* points_second, fenced_to]; date is the day's ordinal.                   *)
(***************************************************************************)
Bout(date, index, first_fencer, second_fencer, points_first, points_second, fenced_to) ==
  [date |-> date, index |-> index, first_fencer |-> first_fencer,
   second_fencer |-> second_fencer, points_first |-> points_first,
   points_second |-> points_second, fenced_to |-> fenced_to]

\* Bout.__cmp__: 0 for equal dates (the difference of the dates in
\* seconds), else the difference of the indices.
Bout_cmp(self, other) ==
  IF self.date = other.date THEN 0 ELSE self.index - other.index

\* x < y as list.sort() evaluates it through __cmp__.
bout_lt(x, y) == Bout_cmp(x, y) < 0

\* Bout.date_string: the ISO date, with "." and the index appended when the
\* index is not 0.  Two date strings are equal iff date and index are, so
\* the string is modelled by the pair.
date_string(bout) == <<bout.date, bout.index>>

(***************************************************************************)
(* bouts.sort(): Python 2's list.sort() for lists shorter than 64: the     *)
(* leading run is found (and reversed if strictly descending), the rest is *)
(* inserted by binary insertion.                                           *)
(***************************************************************************)
RECURSIVE run_length(_, _, _)
run_length(s, k, descending) ==
  IF k = Len(s) THEN k
  ELSE IF bout_lt(s[k + 1], s[k]) = descending THEN run_length(s, k + 1, descending)
  ELSE k

reverse_seq(s) == [k \in 1..Len(s) |-> s[Len(s) + 1 - k]]

RECURSIVE binary_position(_, _, _, _)
binary_position(s, pivot, l, r) ==
  LET p == l + (r - l) \div 2
      l2 == IF bout_lt(pivot, s[p + 1]) THEN l ELSE p + 1
      r2 == IF bout_lt(pivot, s[p + 1]) THEN p ELSE r
  IN  IF l2 < r2 THEN binary_position(s, pivot, l2, r2) ELSE l2

RECURSIVE binarysort(_, _)
binarysort(s, start) ==
  IF start >= Len(s) THEN s
  ELSE LET pivot == s[start + 1]
           l == binary_position(s, pivot, 0, start)
           moved == SubSeq(s, 1, l) \o <<pivot>> \o SubSeq(s, l + 1, start)
                    \o SubSeq(s, start + 2, Len(s))
       IN  binarysort(moved, start + 1)

list_sort(s) ==
  IF Len(s) < 2 THEN s
  ELSE LET descending == bout_lt(s[2], s[1])
           n == run_length(s, 2, descending)
           s1 == IF descending
                 THEN reverse_seq(SubSeq(s, 1, n)) \o SubSeq(s, n + 1, Len(s))
                 ELSE s
       IN  IF n < Len(s) THEN binarysort(s1, n) ELSE s1

(***************************************************************************)
(* Fencer.  A fencer is a record of the attributes of the Python object;   *)
(* felo_rating is the private __felo_rating and k_factor the private       *)
(* __k_factor.  Attributes the constructor does not create (the rating of  *)
(* a freshman, the accumulators of a rated fencer) are held at 0 and never *)
(* read.  Ratings and weightings are in Milli.                             *)
(***************************************************************************)
\* name.startswith(u"(")
name_is_hidden(name) == name = "(H)"

\* name[1:-1]
name_without_parentheses(name) == IF name = "(H)" THEN "H" ELSE name

\* name.find("<") != -1
name_is_foreign(name) == name \in {"X <1500>", "Y <2500>"}

\* int(re.search(r"<(\d+)>", name).group(1))
name_foreign_rating(name) ==
  CASE name = "X <1500>" -> 1500
    [] name = "Y <2500>" -> 2500
    [] OTHER -> 0

\* Mutant of Fencer_set_felo_rating: the k factor follows the rating down
\* again.
Fencer_set_felo_rating_unpromoting(self, felo_rating) ==
  IF ~self.freshman /\ ~self.foreign_fencer
  THEN LET r == Max(felo_rating, minimal_felo_rating * Milli)
       IN  [self EXCEPT !.felo_rating = r,
                        !.k_factor = IF r >= felo_rating_top_fencers * Milli
                                     THEN k_factor_top_fencers
                                     ELSE k_factor_others]
  ELSE self

\* Mutant of Fencer_set_felo_rating: the rating is stored without the floor.
Fencer_set_felo_rating_unfloored(self, felo_rating) ==
  IF ~self.freshman /\ ~self.foreign_fencer
  THEN [self EXCEPT !.felo_rating = felo_rating,
                    !.k_factor = IF felo_rating >= felo_rating_top_fencers * Milli
                                 THEN k_factor_top_fencers ELSE @]
  ELSE self

\* Fencer.__set_felo_rating, the setter of felo_rating and felo_rating_exact.
Fencer_set_felo_rating(self, felo_rating) ==
  IF ~self.freshman /\ ~self.foreign_fencer
  THEN LET r == Max(felo_rating, minimal_felo_rating * Milli)
       IN  [self EXCEPT !.felo_rating = r,
                        !.k_factor = IF r >= felo_rating_top_fencers * Milli
                                     THEN k_factor_top_fencers ELSE @]
  ELSE self

\* Fencer.__init__(name, felo_rating, parameters, initial_total_weighting)
Fencer_init(name, felo_rating, initial_total_weighting) ==
  LET base == [hidden |-> name_is_hidden(name),
               name |-> IF name_is_hidden(name)
                        THEN name_without_parentheses(name) ELSE name,
               total_weighting |-> initial_total_weighting,
               initial_total_weighting |-> initial_total_weighting,
               total_weighting_preliminary |-> initial_total_weighting,
               k_factor |-> k_factor_others,
               foreign_fencer |-> name_is_foreign(name),
               felo_rating |-> IF name_is_foreign(name)
                               THEN name_foreign_rating(name) * Milli ELSE 0,
               freshman |-> (felo_rating = 0),
               felo_rating_preliminary |-> 0,
               initial_felo_rating |-> 0,
               total_felo_rating_opponents |-> 0,
               total_result |-> 0,
               old_felo_rating |-> 0]
  IN  IF ~base.freshman
      THEN [Fencer_set_felo_rating(base, felo_rating)
              EXCEPT !.initial_felo_rating = felo_rating,
                     !.felo_rating_preliminary = felo_rating]
      ELSE base

\* Mutant of felo_rating_exact: the estimate without the factor
\* total_weighting / (total_weighting + 2).
felo_rating_exact_undamped(self) ==
  IF ~self.freshman THEN self.felo_rating
  ELSE IF self.total_weighting < five_point_bouts_for_estimate * Milli
          \/ self.total_weighting = 0
  THEN 0
  ELSE MulDiv(self.total_felo_rating_opponents, Milli, self.total_weighting)
         + RoundDiv(MulDiv(self.total_result, Milli, self.total_weighting) * 700,
                    Milli)

\* Fencer.__get_felo_rating_exact: the stored rating, or for a freshman the
\* estimate of the Austrian method (0 below the estimate threshold).
felo_rating_exact(self) ==
  IF ~self.freshman THEN self.felo_rating
  ELSE IF self.total_weighting < five_point_bouts_for_estimate * Milli
          \/ self.total_weighting = 0
  THEN 0
  ELSE LET A == MulDiv(self.total_result, Milli, self.total_weighting)
           B == MulDiv(self.total_weighting, 10000, self.total_weighting + 2 * Milli)
           average_felo_rating_opponents ==
             MulDiv(self.total_felo_rating_opponents, Milli, self.total_weighting)
       IN  average_felo_rating_opponents + RoundDiv(MulDiv(A, B, 10000) * 700, Milli)

\* Fencer.__cmp__: -(self.felo_rating_exact - other.felo_rating_exact), a
\* float, which the comparison of Python 2 converts to an integer by
\* cutting off its fraction.
Fencer_cmp(self, other) ==
  LET difference == felo_rating_exact(other) - felo_rating_exact(self)
  IN  IF difference >= 0 THEN difference \div Milli
      ELSE -((-difference) \div Milli)

\* x < y for two fencers of fs, as list.sort() evaluates it.
fencer_lt(fs, x, y) == Fencer_cmp(fs[x], fs[y]) < 0

(***************************************************************************)
(* visible_fencers.sort(): the same list.sort() as for the bouts, on a     *)
(* list of fencers of fs (held by name).                                   *)
(***************************************************************************)
RECURSIVE fencer_run_length(_, _, _, _)
fencer_run_length(fs, s, m, descending) ==
  IF m = Len(s) THEN m
  ELSE IF fencer_lt(fs, s[m + 1], s[m]) = descending
  THEN fencer_run_length(fs, s, m + 1, descending)
  ELSE m

RECURSIVE fencer_binary_position(_, _, _, _, _)
fencer_binary_position(fs, s, pivot, l, r) ==
  LET p == l + (r - l) \div 2
      l2 == IF fencer_lt(fs, pivot, s[p + 1]) THEN l ELSE p + 1
      r2 == IF fencer_lt(fs, pivot, s[p + 1]) THEN p ELSE r
  IN  IF l2 < r2 THEN fencer_binary_position(fs, s, pivot, l2, r2) ELSE l2

RECURSIVE fencer_binarysort(_, _, _)
fencer_binarysort(fs, s, start) ==
  IF start >= Len(s) THEN s
  ELSE LET pivot == s[start + 1]
           l == fencer_binary_position(fs, s, pivot, 0, start)
           moved == SubSeq(s, 1, l) \o <<pivot>> \o SubSeq(s, l + 1, start)
                    \o SubSeq(s, start + 2, Len(s))
       IN  fencer_binarysort(fs, moved, start + 1)

fencer_list_sort(fs, s) ==
  IF Len(s) < 2 THEN s
  ELSE LET descending == fencer_lt(fs, s[2], s[1])
           n == fencer_run_length(fs, s, 2, descending)
           s1 == IF descending
                 THEN reverse_seq(SubSeq(s, 1, n)) \o SubSeq(s, n + 1, Len(s))
                 ELSE s
       IN  IF n < Len(s) THEN fencer_binarysort(fs, s1, n) ELSE s1

\* Mutant of k_factor: every fencer has the k factor of the others.
k_factor_others_for_all(self) == k_factor_others

\* Mutant of k_factor: the freshman k factor is never applied.
k_factor_without_freshman_regime(self) == self.k_factor

\* Fencer.__get_k_factor
k_factor(self) ==
  IF self.total_weighting < five_point_bouts_freshmen * Milli
  THEN k_factor_freshmen
  ELSE self.k_factor

(***************************************************************************)
(* set_preliminary_felo_ratings(fencers, bout, parameters).  The result is *)
(* the fencers and the class variable                                      *)
(* Fencer.fencers_with_preliminary_felo_rating after the call.             *)
(***************************************************************************)
bout_weighting(bout) ==
  IF bout.fenced_to = 0 THEN weighting_team_bout * Milli
  ELSE RoundDiv((bout.points_first + bout.points_second) * 100 * Milli, 676)

bout_result_first(bout) ==
  IF bout.points_first + bout.points_second = 0 THEN Micro \div 2
  ELSE RoundDiv(bout.points_first * Micro, bout.points_first + bout.points_second)

\* Mutant of bout_expectation_first: the expectation is taken from the
\* preliminary ratings.
bout_expectation_first_preliminary(fencers, bout) ==
  LET max_points == Max(bout.points_first, bout.points_second)
      e == elo_expectation(fencers[bout.first_fencer].felo_rating_preliminary,
                           fencers[bout.second_fencer].felo_rating_preliminary)
  IN  IF bout.fenced_to = 0 /\ max_points <= 15 /\ e < Micro
      THEN bias_corrected(e, max_points)
      ELSE e

\* Mutant of bout_expectation_first: the winning-hit adjustment is left out.
bout_expectation_first_unadjusted(fencers, bout) ==
  elo_expectation(felo_rating_exact(fencers[bout.first_fencer]),
                  felo_rating_exact(fencers[bout.second_fencer]))

\* expectation_first of set_preliminary_felo_ratings, with the winning-hit
\* adjustment for relay bouts.
bout_expectation_first(fencers, bout) ==
  LET max_points == Max(bout.points_first, bout.points_second)
      e == elo_expectation(felo_rating_exact(fencers[bout.first_fencer]),
                           felo_rating_exact(fencers[bout.second_fencer]))
  IN  IF bout.fenced_to = 0 /\ max_points <= 15 /\ e < Micro
      THEN bias_corrected(e, max_points)
      ELSE e

\* Mutant of both_freshmen: a bout of two freshmen is not skipped.
both_freshmen_never(fencers, bout) == FALSE

\* Mutant of freshman_result: the share of the points, without the 0.5
\* taken off.
freshman_result_without_offset(result_first, freshman_is_first) ==
  IF freshman_is_first THEN result_first ELSE Micro - result_first

\* Mutant of freshman_result: the sign is not turned for a freshman who
\* fences second.
freshman_result_unsigned(result_first, freshman_is_first) ==
  result_first - Micro \div 2

\* (result_first - 0.5) for a freshman who fences first, (0.5 - result_first)
\* for one who fences second.
freshman_result(result_first, freshman_is_first) ==
  IF freshman_is_first THEN result_first - Micro \div 2
  ELSE Micro \div 2 - result_first

\* if fencers[first_fencer].freshman and fencers[second_fencer].freshman
both_freshmen(fencers, bout) ==
  fencers[bout.first_fencer].freshman /\ fencers[bout.second_fencer].freshman

\* Mutant of set_preliminary_felo_ratings: a bout against a freshman counts
\* for the total weighting of the rated opponent.
set_preliminary_felo_ratings_counting_opponent(fencers, pending, bout) ==
  LET first_fencer == bout.first_fencer
      second_fencer == bout.second_fencer
      weighting == bout_weighting(bout)
      result_first == bout_result_first(bout)
  IN  IF both_freshmen(fencers, bout)
      THEN [fencers |-> fencers, pending |-> pending]
      ELSE IF fencers[first_fencer].freshman
      THEN [fencers |->
              [fencers EXCEPT
                 ![first_fencer].total_weighting = @ + weighting,
                 ![first_fencer].total_result =
                    @ + MulDiv(freshman_result(result_first, TRUE), weighting, Milli),
                 ![first_fencer].total_felo_rating_opponents =
                    @ + MulDiv(felo_rating_exact(fencers[second_fencer]), weighting, Milli),
                 ![second_fencer].total_weighting_preliminary = @ + weighting],
            pending |-> pending \cup {second_fencer}]
      ELSE IF fencers[second_fencer].freshman
      THEN [fencers |->
              [fencers EXCEPT
                 ![second_fencer].total_weighting = @ + weighting,
                 ![second_fencer].total_result =
                    @ + MulDiv(freshman_result(result_first, FALSE), weighting, Milli),
                 ![second_fencer].total_felo_rating_opponents =
                    @ + MulDiv(felo_rating_exact(fencers[first_fencer]), weighting, Milli),
                 ![first_fencer].total_weighting_preliminary = @ + weighting],
            pending |-> pending \cup {first_fencer}]
      ELSE LET improvement_first ==
                 MulDiv(result_first - bout_expectation_first(fencers, bout),
                        weighting, Milli)
               f1 == [fencers EXCEPT
                        ![first_fencer].felo_rating_preliminary =
                           @ + RoundDiv(k_factor(fencers[first_fencer]) * improvement_first, Milli)]
               f2 == [f1 EXCEPT
                        ![second_fencer].felo_rating_preliminary =
                           @ - RoundDiv(k_factor(f1[second_fencer]) * improvement_first, Milli)]
               f3 == [f2 EXCEPT ![first_fencer].total_weighting_preliminary = @ + weighting]
               f4 == [f3 EXCEPT ![second_fencer].total_weighting_preliminary = @ + weighting]
           IN  [fencers |-> f4, pending |-> pending \cup {first_fencer, second_fencer}]

\* Mutant of set_preliminary_felo_ratings: nothing is staged for a foreign
\* fencer of a rated bout.
set_preliminary_felo_ratings_skipping_foreign(fencers, pending, bout) ==
  LET first_fencer == bout.first_fencer
      second_fencer == bout.second_fencer
      weighting == bout_weighting(bout)
      result_first == bout_result_first(bout)
      staged == {n \in {first_fencer, second_fencer} : ~fencers[n].foreign_fencer}
  IN  IF both_freshmen(fencers, bout)
           \/ fencers[first_fencer].freshman \/ fencers[second_fencer].freshman
      THEN [fencers |-> fencers, pending |-> pending]
      ELSE LET improvement_first ==
                 MulDiv(result_first - bout_expectation_first(fencers, bout),
                        weighting, Milli)
           IN  [fencers |->
                  [n \in DOMAIN fencers |->
                     IF n \notin staged THEN fencers[n]
                     ELSE [fencers[n] EXCEPT
                             !.felo_rating_preliminary =
                                IF n = first_fencer
                                THEN @ + RoundDiv(k_factor(fencers[n]) * improvement_first, Milli)
                                ELSE @ - RoundDiv(k_factor(fencers[n]) * improvement_first, Milli),
                             !.total_weighting_preliminary = @ + weighting]],
                pending |-> pending \cup staged]

set_preliminary_felo_ratings(fencers, pending, bout) ==
  LET first_fencer == bout.first_fencer
      second_fencer == bout.second_fencer
      weighting == bout_weighting(bout)
      result_first == bout_result_first(bout)
  IN  IF both_freshmen(fencers, bout)
      THEN [fencers |-> fencers, pending |-> pending]
      ELSE IF fencers[first_fencer].freshman
      THEN [fencers |->
              [fencers EXCEPT
                 ![first_fencer].total_weighting = @ + weighting,
                 ![first_fencer].total_result =
                    @ + MulDiv(freshman_result(result_first, TRUE), weighting, Milli),
                 ![first_fencer].total_felo_rating_opponents =
                    @ + MulDiv(felo_rating_exact(fencers[second_fencer]), weighting, Milli)],
            pending |-> pending]
      ELSE IF fencers[second_fencer].freshman
      THEN [fencers |->
              [fencers EXCEPT
                 ![second_fencer].total_weighting = @ + weighting,
                 ![second_fencer].total_result =
                    @ + MulDiv(freshman_result(result_first, FALSE), weighting, Milli),
                 ![second_fencer].total_felo_rating_opponents =
                    @ + MulDiv(felo_rating_exact(fencers[first_fencer]), weighting, Milli)],
            pending |-> pending]
      ELSE LET improvement_first ==
                 MulDiv(result_first - bout_expectation_first(fencers, bout),
                        weighting, Milli)
               f1 == [fencers EXCEPT
                        ![first_fencer].felo_rating_preliminary =
                           @ + RoundDiv(k_factor(fencers[first_fencer]) * improvement_first, Milli)]
               f2 == [f1 EXCEPT
                        ![second_fencer].felo_rating_preliminary =
                           @ - RoundDiv(k_factor(f1[second_fencer]) * improvement_first, Milli)]
               f3 == [f2 EXCEPT ![first_fencer].total_weighting_preliminary = @ + weighting]
               f4 == [f3 EXCEPT ![second_fencer].total_weighting_preliminary = @ + weighting]
           IN  [fencers |-> f4, pending |-> pending \cup {first_fencer, second_fencer}]

\* Mutant of adopt_preliminary_felo_ratings: the set is not cleared.
adopt_preliminary_felo_ratings_uncleared(fencers, pending) ==
  [fencers |->
     [n \in DOMAIN fencers |->
        IF n \in pending
        THEN [Fencer_set_felo_rating(fencers[n], fencers[n].felo_rating_preliminary)
                EXCEPT !.total_weighting = fencers[n].total_weighting_preliminary]
        ELSE fencers[n]],
   pending |-> pending]

\* Mutant of adopt_preliminary_felo_ratings: the total weighting is not
\* adopted.
adopt_preliminary_felo_ratings_without_weighting(fencers, pending) ==
  [fencers |->
     [n \in DOMAIN fencers |->
        IF n \in pending
        THEN Fencer_set_felo_rating(fencers[n], fencers[n].felo_rating_preliminary)
        ELSE fencers[n]],
   pending |-> {}]

(***************************************************************************)
(* adopt_preliminary_felo_ratings()                                        *)
(***************************************************************************)
adopt_preliminary_felo_ratings(fencers, pending) ==
  [fencers |->
     [n \in DOMAIN fencers |->
        IF n \in pending
        THEN [Fencer_set_felo_rating(fencers[n], fencers[n].felo_rating_preliminary)
                EXCEPT !.total_weighting = fencers[n].total_weighting_preliminary]
        ELSE fencers[n]],
   pending |-> {}]

(***************************************************************************)
(* calculate_felo_ratings_core as a function: the fencers and the pending  *)
(* set after the first n bouts of the list.                                *)
(***************************************************************************)
\* Mutant of batch_ends: a batch is all the bouts of one calendar date.
batch_ends_with_the_day(bs, n) == n = Len(bs) \/ bs[n].date # bs[n + 1].date

\* if i == len(bouts) - 1 or bout.date_string != bouts[i + 1].date_string
batch_ends(bs, n) ==
  n = Len(bs) \/ date_string(bs[n]) # date_string(bs[n + 1])

RECURSIVE calculate_felo_ratings_core(_, _, _, _)
calculate_felo_ratings_core(fencers, pending, bs, n) ==
  IF n = 0 THEN [fencers |-> fencers, pending |-> pending]
  ELSE LET before == calculate_felo_ratings_core(fencers, pending, bs, n - 1)
           staged == set_preliminary_felo_ratings(before.fencers, before.pending, bs[n])
       IN  IF batch_ends(bs, n)
           THEN adopt_preliminary_felo_ratings(staged.fencers, staged.pending)
           ELSE staged

(***************************************************************************)
(* The state: the fencers and bouts handed to calculate_felo_ratings, the  *)
(* process-wide set Fencer.fencers_with_preliminary_felo_rating, the       *)
(* arguments of the call and its position.                                 *)
(*   pc = "constructed"  the Felo file is parsed, the fencers constructed  *)
(*        "cycle"        at the top of the bootstrapping loop's body       *)
(*        "stage"        in calculate_felo_ratings_core, before            *)
(*                       set_preliminary_felo_ratings of bout number k     *)
(*        "boundary"     after it, before the test for the batch's end     *)
(*        "check"        after a bootstrapping pass, before the            *)
(*                       convergence test                                  *)
(*        "final"        before the pass after the bootstrapping           *)
(*        "return"       after that pass                                   *)
(*        "done", "raised"  the call has returned or raised `outcome`      *)
(*        "idle"         no call is under way                              *)
(*        "parsing"      in parse_bouts, before line number k              *)
(* History variables: input_roster and input_bouts (the fencers section    *)
(* and the bout list as they were given), pass_start                       *)
(* (the fencers when the current pass began), passes (the number of passes *)
(* completed in this call), converged (the last convergence test),         *)
(* previous_failed (the call before this one ended in BootstrappingError,   *)
(* where that is recorded).                                                *)
(* visible_fencers is the list calculate_felo_ratings returns (names, in   *)
(* the list's order); it is empty until the call returns.                  *)
(***************************************************************************)
VARIABLES fencers, fencers_with_preliminary_felo_rating, bouts,
          bootstrapping, maxcycles, bootstrapping_callback,
          threshold_bootstrapping, i, k, final_pass, pc, outcome,
          input_roster, input_bouts, pass_start, passes, converged,
          previous_failed, visible_fencers, prognosis

vars == <<fencers, fencers_with_preliminary_felo_rating, bouts,
          bootstrapping, maxcycles, bootstrapping_callback,
          threshold_bootstrapping, i, k, final_pass, pc, outcome,
          input_roster, input_bouts, pass_start, passes, converged,
          previous_failed, visible_fencers, prognosis>>

(***************************************************************************)
(* The inputs of a run.                                                    *)
(***************************************************************************)
Names == {"A", "B", "F", "G", "H", "X <1500>", "Y <2500>"}

\* The name of a fencer as it stands in the Felo file: H wants to be
\* hidden and is written in parentheses.
felo_file_name(n) == IF n = "H" THEN "(H)" ELSE n

\* The fencers section of a Felo file: name, initial rating and initial
\* total weighting.  F and G are freshmen; H is hidden and fences no bout;
\* the foreign fencer X is constructed by parse_bouts with -1 or listed in
\* the file with 0; the foreign fencer Y is listed with its rating and an
\* initial total weighting and fences no bout.
Rosters ==
  {[n \in Names |->
      CASE n = "A" -> r[1]
        [] n = "B" -> <<1500 * Milli, 0>>
        [] n = "H" -> <<1700 * Milli, 0>>
        [] n = "Y <2500>" -> <<2500 * Milli, 20 * Milli>>
        [] n = "F" -> <<0, 9500>>
        [] n = "G" -> <<0, 0>>
        [] OTHER -> <<r[2], 0>>] :
     r \in {<<<<1600 * Milli, 0>>, -1 * Milli>>,
            <<<<1190 * Milli, 20 * Milli>>, 0>>,
            <<<<1496 * Milli, 20 * Milli>>, -1 * Milli>>,
            <<<<2405 * Milli, 20 * Milli>>, -1 * Milli>>}}

BoutUniverse ==
  {Bout(1, 0, "A", "B", 5, 2, 5),
   Bout(1, 0, "B", "A", 5, 4, 5),
   Bout(1, 1, "A", "B", 3, 5, 5),
   Bout(2, 0, "A", "F", 5, 1, 5),
   Bout(2, 0, "F", "G", 5, 3, 5),
   Bout(2, 0, "A", "X <1500>", 1, 0, 0)}

\* The bouts section of a Felo file: up to MaxBouts of the bouts, each at
\* most once, in any order.
BoutLists ==
  {bs \in UNION {[1..n -> BoutUniverse] : n \in 0..MaxBouts} :
     \A a \in 1..Len(bs) : \A b \in 1..Len(bs) : a # b => bs[a] # bs[b]}

\* bootstrapping, maxcycles, threshold bootstrapping (Milli), callback given
CallOptions ==
  {<<FALSE, 1, 1, FALSE>>}
  \cup {<<TRUE, m, t, FALSE>> : m \in 1..MaxCycles, t \in {1, 3000}}
  \cup {<<TRUE, m, 3000, TRUE>> : m \in 1..2}

\* A freshman F with no initial weighting fences ScenarioBouts bouts, all
\* against B (rated 1500), winning about 60% of the points of each.  The
\* bouts come in four kinds (F first or second, short, long and relay
\* bouts); a list holds the kinds in a fixed order with every choice of
\* how many bouts of each kind it has, fenced on one day or one a day.
ScenarioRoster ==
  [n \in Names |->
     CASE n = "A" -> <<1600 * Milli, 0>>
       [] n = "B" -> <<1500 * Milli, 0>>
       [] n = "H" -> <<1700 * Milli, 0>>
       [] n = "Y <2500>" -> <<2500 * Milli, 20 * Milli>>
       [] n = "X <1500>" -> <<-1 * Milli, 0>>
       [] OTHER -> <<0, 0>>]

ScenarioKinds ==
  <<Bout(0, 0, "F", "B", 3, 2, 3),
    Bout(0, 0, "F", "B", 9, 6, 10),
    Bout(0, 0, "B", "F", 2, 3, 0),
    Bout(0, 0, "F", "B", 5, 3, 5)>>

ScenarioCounts ==
  {<<a, b, c, ScenarioBouts - a - b - c>> :
     a \in 0..ScenarioBouts, b \in 0..ScenarioBouts, c \in 0..ScenarioBouts}
  \cap [1..4 -> 0..ScenarioBouts]

scenario_kind(counts, p) ==
  IF p <= counts[1] THEN 1
  ELSE IF p <= counts[1] + counts[2] THEN 2
  ELSE IF p <= counts[1] + counts[2] + counts[3] THEN 3
  ELSE 4

scenario_list(counts, one_day) ==
  [p \in 1..ScenarioBouts |->
     [ScenarioKinds[scenario_kind(counts, p)] EXCEPT
        !.date = IF one_day THEN 1 ELSE p]]

ScenarioLists ==
  {scenario_list(counts, one_day) : counts \in ScenarioCounts, one_day \in BOOLEAN}

Inputs ==
  (Rosters \X BoutLists \X CallOptions)
  \cup ({ScenarioRoster} \X ScenarioLists \X {<<FALSE, 1, 1, FALSE>>})

construct_fencers(roster) ==
  [n \in Names |-> Fencer_init(felo_file_name(n), roster[n][1], roster[n][2])]

(***************************************************************************)
(* The process has started; no Felo file is parsed yet.                    *)
(***************************************************************************)
no_fencers == [n \in {} |-> 0]

Init ==
  /\ fencers = no_fencers
  /\ fencers_with_preliminary_felo_rating = {}
  /\ bouts = << >>
  /\ input_roster = no_fencers
  /\ input_bouts = << >>
  /\ bootstrapping = FALSE
  /\ maxcycles = 1
  /\ threshold_bootstrapping = 1
  /\ bootstrapping_callback = FALSE
  /\ i = 0
  /\ k = 0
  /\ final_pass = FALSE
  /\ pc = "idle"
  /\ outcome = "none"
  /\ pass_start = no_fencers
  /\ passes = 0
  /\ converged = FALSE
  /\ previous_failed = FALSE
  /\ visible_fencers = << >>
  /\ prognosis = << >>

\* parse_felo_file: the fencers are constructed, the bouts are listed.
NewRun ==
  /\ pc = "idle"
  /\ \E inp \in Inputs :
       /\ fencers' = construct_fencers(inp[1])
       /\ bouts' = inp[2]
       /\ input_roster' = inp[1]
       /\ input_bouts' = inp[2]
       /\ bootstrapping' = inp[3][1]
       /\ maxcycles' = inp[3][2]
       /\ threshold_bootstrapping' = inp[3][3]
       /\ bootstrapping_callback' = inp[3][4]
       /\ pass_start' = construct_fencers(inp[1])
  /\ pc' = "constructed"
  /\ UNCHANGED <<fencers_with_preliminary_felo_rating, i, k, final_pass,
                 outcome, passes, converged,
                 previous_failed, visible_fencers>>
  /\ UNCHANGED prognosis

\* The caller (a handler of felo.py) returns: its fencers and bouts are
\* dropped.  The class variable of Fencer lives on.
drop_call ==
  /\ pc \in {"done", "raised"}
  /\ fencers' = no_fencers
  /\ bouts' = << >>
  /\ input_roster' = no_fencers
  /\ input_bouts' = << >>
  /\ bootstrapping' = FALSE
  /\ maxcycles' = 1
  /\ threshold_bootstrapping' = 1
  /\ bootstrapping_callback' = FALSE
  /\ i' = 0
  /\ k' = 0
  /\ final_pass' = FALSE
  /\ pc' = "idle"
  /\ outcome' = "none"
  /\ pass_start' = no_fencers
  /\ passes' = 0
  /\ converged' = FALSE
  /\ visible_fencers' = << >>
  /\ UNCHANGED fencers_with_preliminary_felo_rating
  /\ UNCHANGED prognosis

Release ==
  /\ drop_call
  /\ UNCHANGED previous_failed

\* The same step, with a record of whether the call ended in
\* BootstrappingError.
ReleaseRecorded ==
  /\ drop_call
  /\ previous_failed' = (outcome = "BootstrappingError")

(***************************************************************************)
(* calculate_felo_ratings, up to the bootstrapping loop: bouts.sort().     *)
(***************************************************************************)
Call ==
  /\ pc = "constructed"
  /\ bouts' = list_sort(bouts)
  /\ pc' = IF bootstrapping THEN "cycle" ELSE "final"
  /\ UNCHANGED <<fencers, fencers_with_preliminary_felo_rating, bootstrapping,
                 maxcycles, bootstrapping_callback, threshold_bootstrapping,
                 i, k, final_pass, outcome, input_roster, input_bouts, pass_start, passes,
                 converged,
                 previous_failed, visible_fencers>>
  /\ UNCHANGED prognosis

\* Mutant of snapshot_old_felo_ratings: the accumulators of the freshmen
\* start every cycle from their initial values.
snapshot_old_felo_ratings_resetting(fs) ==
  [n \in DOMAIN fs |->
     IF fs[n].freshman
     THEN [fs[n] EXCEPT !.old_felo_rating = felo_rating_exact(fs[n]),
                        !.total_weighting = fs[n].initial_total_weighting,
                        !.total_result = 0,
                        !.total_felo_rating_opponents = 0]
     ELSE [fs[n] EXCEPT !.old_felo_rating = felo_rating_exact(fs[n])]]

\* for fencer in fencers.values(): fencer.old_felo_rating = fencer.felo_rating_exact
snapshot_old_felo_ratings(fs) ==
  [n \in DOMAIN fs |-> [fs[n] EXCEPT !.old_felo_rating = felo_rating_exact(fs[n])]]

\* The head of the loop body: the progress callback with
\* float(i) / (maxcycles - 1), the snapshot, and the call of the core.
CycleStart ==
  /\ pc = "cycle"
  /\ IF i % 10 = 0 /\ bootstrapping_callback /\ maxcycles - 1 = 0
     THEN /\ pc' = "raised"
          /\ outcome' = "ZeroDivisionError"
          /\ UNCHANGED <<fencers, pass_start, k, passes>>
     ELSE /\ fencers' = snapshot_old_felo_ratings(fencers)
          /\ pass_start' = fencers'
          /\ k' = 1
          /\ pc' = IF Len(bouts) = 0 THEN "check" ELSE "stage"
          /\ passes' = IF Len(bouts) = 0 THEN passes + 1 ELSE passes
          /\ UNCHANGED outcome
  /\ UNCHANGED <<fencers_with_preliminary_felo_rating, bouts, bootstrapping,
                 maxcycles, bootstrapping_callback, threshold_bootstrapping,
                 i, final_pass, input_roster, input_bouts, converged,
                 previous_failed, visible_fencers>>
  /\ UNCHANGED prognosis

\* calculate_felo_ratings_core: set_preliminary_felo_ratings(fencers, bout, parameters)
Stage ==
  /\ pc = "stage"
  /\ LET r == set_preliminary_felo_ratings(fencers,
                fencers_with_preliminary_felo_rating, bouts[k])
     IN  /\ fencers' = r.fencers
         /\ fencers_with_preliminary_felo_rating' = r.pending
  /\ pc' = "boundary"
  /\ UNCHANGED <<bouts, bootstrapping, maxcycles, bootstrapping_callback,
                 threshold_bootstrapping, i, k, final_pass, outcome,
                 input_roster, input_bouts, pass_start, passes, converged,
                 previous_failed, visible_fencers>>
  /\ UNCHANGED prognosis

\* calculate_felo_ratings_core: the end of the loop body
Boundary ==
  /\ pc = "boundary"
  /\ IF batch_ends(bouts, k)
     THEN LET r == adopt_preliminary_felo_ratings(fencers,
                     fencers_with_preliminary_felo_rating)
          IN  /\ fencers' = r.fencers
              /\ fencers_with_preliminary_felo_rating' = r.pending
     ELSE UNCHANGED <<fencers, fencers_with_preliminary_felo_rating>>
  /\ k' = k + 1
  /\ pc' = IF k < Len(bouts) THEN "stage"
           ELSE IF final_pass THEN "return" ELSE "check"
  /\ passes' = IF k < Len(bouts) THEN passes ELSE passes + 1
  /\ UNCHANGED <<bouts, bootstrapping, maxcycles, bootstrapping_callback,
                 threshold_bootstrapping, i, final_pass, outcome, input_roster, input_bouts,
                 pass_start, converged,
                 previous_failed, visible_fencers>>
  /\ UNCHANGED prognosis

\* The for/else over the fencers: no fencer's rating moved by the threshold
\* or more.
bootstrapping_converged(fs, threshold) ==
  \A n \in DOMAIN fs :
    ~(Abs(fs[n].old_felo_rating - felo_rating_exact(fs[n])) >= threshold)

\* Mutant of raises_bootstrapping_error: the error is raised one cycle
\* before the range is exhausted.
raises_bootstrapping_error_early(cycle, cycles) == cycle = cycles - 2

\* if i == maxcycles - 1: raise BootstrappingError
raises_bootstrapping_error(cycle, cycles) == cycle = cycles - 1

\* Mutant of next_cycle_follows: the loop does not break on convergence.
next_cycle_follows_without_break(conv, cycle, cycles) == cycle + 1 < cycles

\* for i in range(maxcycles) with the break of the for/else: another cycle
\* follows when the test failed and the range is not exhausted.
next_cycle_follows(conv, cycle, cycles) == ~conv /\ cycle + 1 < cycles

\* The end of the loop body: break when converged, else the next cycle;
\* after the loop BootstrappingError when i == maxcycles - 1.
CycleEnd ==
  /\ pc = "check"
  /\ converged' = bootstrapping_converged(fencers, threshold_bootstrapping)
  /\ IF next_cycle_follows(converged', i, maxcycles)
     THEN /\ i' = i + 1
          /\ pc' = "cycle"
          /\ UNCHANGED outcome
     ELSE IF raises_bootstrapping_error(i, maxcycles)
     THEN /\ pc' = "raised"
          /\ outcome' = "BootstrappingError"
          /\ UNCHANGED i
     ELSE /\ pc' = "final"
          /\ UNCHANGED <<i, outcome>>
  /\ UNCHANGED <<fencers, fencers_with_preliminary_felo_rating, bouts,
                 bootstrapping, maxcycles, bootstrapping_callback,
                 threshold_bootstrapping, k, final_pass, input_roster, input_bouts,
                 pass_start, passes, previous_failed, visible_fencers>>
  /\ UNCHANGED prognosis

\* Mutant of FinalPass: the call returns the ratings of the last cycle.
FinalPass_left_out ==
  /\ pc = "final"
  /\ bootstrapping
  /\ final_pass' = TRUE
  /\ pc' = "return"
  /\ UNCHANGED <<fencers, fencers_with_preliminary_felo_rating, bouts,
                 bootstrapping, maxcycles, bootstrapping_callback,
                 threshold_bootstrapping, i, k, outcome, input_roster,
                 input_bouts, pass_start, passes, converged,
                 previous_failed, visible_fencers, prognosis>>

\* xtics = calculate_felo_ratings_core(parameters, fencers, bouts, plot, data_file_name)
FinalPass ==
  /\ pc = "final"
  /\ final_pass' = TRUE
  /\ pass_start' = fencers
  /\ k' = 1
  /\ pc' = IF Len(bouts) = 0 THEN "return" ELSE "stage"
  /\ passes' = IF Len(bouts) = 0 THEN passes + 1 ELSE passes
  /\ UNCHANGED <<fencers, fencers_with_preliminary_felo_rating, bouts,
                 bootstrapping, maxcycles, bootstrapping_callback,
                 threshold_bootstrapping, i, outcome, input_roster, input_bouts, converged,
                 previous_failed, visible_fencers>>
  /\ UNCHANGED prognosis

\* fencers.values(): the fencers of `names` in the order of the
\* dictionary, which is any order.
dict_values(names) ==
  {s \in [1..Cardinality(names) -> names] :
     \A a \in DOMAIN s : \A b \in DOMAIN s : s[a] = s[b] => a = b}

\* The fencers that [fencer for fencer in fencers.values() if not
\* (fencer.hidden or fencer.freshman or fencer.foreign_fencer)] keeps.
\* The three attributes are set by the constructor and never change.
visible_names(fs) ==
  {n \in DOMAIN fs :
     ~(fs[n].hidden \/ fs[n].freshman \/ fs[n].foreign_fencer)}

\* The end of calculate_felo_ratings (no plot, no estimate of freshmen):
\* visible_fencers, listed before the passes in the order of the
\* dictionary, is sorted and returned.
Return ==
  /\ pc = "return"
  /\ pc' = "done"
  /\ outcome' = "returned"
  /\ \E listed \in dict_values(visible_names(fencers)) :
       visible_fencers' = fencer_list_sort(fencers, listed)
  /\ UNCHANGED <<fencers, fencers_with_preliminary_felo_rating, bouts,
                 bootstrapping, maxcycles, bootstrapping_callback,
                 threshold_bootstrapping, i, k, final_pass, input_roster, input_bouts,
                 pass_start, passes, converged,
                 previous_failed>>
  /\ UNCHANGED prognosis

Next ==
  \/ NewRun
  \/ Release
  \/ Call
  \/ CycleStart
  \/ Stage
  \/ Boundary
  \/ CycleEnd
  \/ FinalPass
  \/ Return

Spec == Init /\ [][Next]_vars

\* The interpreter runs a call to its end, and the caller returns; whether
\* another call is made is open.  Call is enabled exactly when pc is
\* "constructed" and every Call step leaves "constructed", so weak fairness
\* of Call is []<>(pc # "constructed"); likewise for Stage and "stage".
FairSpec ==
  /\ Spec
  /\ WF_vars(Release \/ CycleStart \/ Boundary \/ CycleEnd \/ FinalPass
               \/ Return)
  /\ []<>(pc # "constructed")
  /\ []<>(pc # "stage")

(***************************************************************************)
(* The same program with the record of how the call before ended, for     *)
(* properties of one call after another.                                   *)
(***************************************************************************)
NextRuns ==
  \/ NewRun
  \/ ReleaseRecorded
  \/ Call
  \/ CycleStart
  \/ Stage
  \/ Boundary
  \/ CycleEnd
  \/ FinalPass
  \/ Return

RunsSpec == Init /\ [][NextRuns]_vars

(***************************************************************************)
(* calculate_felo_ratings as a function of its arguments: the bootstrapping *)
(* loop from a given cycle on, and the whole call.                         *)
(***************************************************************************)
RECURSIVE bootstrapping_loop(_, _, _, _, _, _, _)
bootstrapping_loop(fs, pending, bs, cycle, cycles, threshold, callback) ==
  IF cycle % 10 = 0 /\ callback /\ cycles - 1 = 0
  THEN [fencers |-> fs, pending |-> pending, outcome |-> "ZeroDivisionError"]
  ELSE LET r == calculate_felo_ratings_core(snapshot_old_felo_ratings(fs),
                                            pending, bs, Len(bs))
           conv == bootstrapping_converged(r.fencers, threshold)
       IN  IF next_cycle_follows(conv, cycle, cycles)
           THEN bootstrapping_loop(r.fencers, r.pending, bs, cycle + 1,
                                   cycles, threshold, callback)
           ELSE IF raises_bootstrapping_error(cycle, cycles)
           THEN [fencers |-> r.fencers, pending |-> r.pending,
                 outcome |-> "BootstrappingError"]
           ELSE [fencers |-> r.fencers, pending |-> r.pending,
                 outcome |-> "none"]

calculate_felo_ratings(fs, pending, bs, boot, cycles, threshold, callback) ==
  LET sorted == list_sort(bs)
      looped == IF boot
                THEN bootstrapping_loop(fs, pending, sorted, 0, cycles,
                                        threshold, callback)
                ELSE [fencers |-> fs, pending |-> pending, outcome |-> "none"]
  IN  IF looped.outcome # "none" THEN looped
      ELSE LET r == calculate_felo_ratings_core(looped.fencers, looped.pending,
                                                sorted, Len(sorted))
           IN  [fencers |-> r.fencers, pending |-> r.pending,
                outcome |-> "returned"]

\* The committed view of the fencers: felo_rating_exact and total_weighting.
committed(fs) ==
  [n \in DOMAIN fs |-> <<felo_rating_exact(fs[n]), fs[n].total_weighting>>]

\* The bout list with the bouts at positions m and m + 1 exchanged.
swap_adjacent(bs, m) ==
  [p \in 1..Len(bs) |-> IF p = m THEN bs[m + 1]
                        ELSE IF p = m + 1 THEN bs[m] ELSE bs[p]]

\* bouts 1 .. k - 1 of the current pass are processed and committed
batch_committed ==
  /\ pc \in {"stage", "check", "return"}
  /\ k >= 2
  /\ batch_ends(bouts, k - 1)

\* bouts 1 .. k - 1 of the current pass are processed and they end a date
date_committed ==
  /\ pc \in {"stage", "check", "return"}
  /\ k >= 2
  /\ (k - 1 = Len(bouts) \/ bouts[k - 1].date # bouts[k].date)

(***************************************************************************)
(* C1: at every moment of a call, every fencer who is neither a freshman   *)
(* nor foreign has felo_rating_exact at or above the minimal felo rating   *)
(* (1200), whatever the bouts and whatever stage of staging or commit the  *)
(* call is in.                                                             *)
(***************************************************************************)
RatingFloorHolds ==
  \A n \in DOMAIN fencers :
    (~fencers[n].freshman /\ ~fencers[n].foreign_fencer)
      => felo_rating_exact(fencers[n]) >= minimal_felo_rating * Milli

\* A rated fencer whose staged rating fell below the floor has been committed
\* at the floor.
RatingFloorReached ==
  /\ pc = "done"
  /\ \E n \in DOMAIN fencers :
       /\ ~fencers[n].freshman /\ ~fencers[n].foreign_fencer
       /\ fencers[n].felo_rating = minimal_felo_rating * Milli
       /\ fencers[n].felo_rating_preliminary < minimal_felo_rating * Milli
       /\ fencers[n].total_weighting > fencers[n].initial_total_weighting

(***************************************************************************)
(* C2 as stated: exchanging two neighbouring bouts of the same calendar    *)
(* date, whatever their indices, leaves every fencer's committed rating    *)
(* and total weighting after that date's bouts and at the end of the pass  *)
(* unchanged.                                                              *)
(***************************************************************************)
SameDateOrderIrrelevant ==
  date_committed =>
    \A m \in 1..(k - 2) :
      bouts[m].date = bouts[m + 1].date =>
        committed(fencers) =
          committed(calculate_felo_ratings_core(pass_start, {},
                      swap_adjacent(bouts, m), k - 1).fencers)

(***************************************************************************)
(* C2, amended: exchanging two neighbouring bouts of one batch (the same   *)
(* date and the same index, hence the same date_string) leaves every       *)
(* fencer's committed rating and total weighting after that batch and at   *)
(* the end of the pass unchanged.                                          *)
(***************************************************************************)
SameBatchOrderIrrelevant ==
  batch_committed =>
    \A m \in 1..(k - 2) :
      date_string(bouts[m]) = date_string(bouts[m + 1]) =>
        committed(fencers) =
          committed(calculate_felo_ratings_core(pass_start, {},
                      swap_adjacent(bouts, m), k - 1).fencers)

\* Two different rated bouts of one batch have been committed together.
SameBatchCommitted ==
  /\ batch_committed
  /\ \E m \in 1..(k - 2) :
       /\ date_string(bouts[m]) = date_string(bouts[m + 1])
       /\ bouts[m] # bouts[m + 1]
       /\ ~pass_start[bouts[m].first_fencer].freshman
       /\ ~pass_start[bouts[m + 1].second_fencer].freshman
  /\ committed(fencers) # committed(pass_start)

(***************************************************************************)
(* C3 as stated: after the sort the bouts are in ascending date order, and *)
(* the index never decides the order of two bouts of different dates.      *)
(***************************************************************************)
BoutsInDateOrder ==
  pc \notin {"idle", "constructed"} =>
    \A a \in 1..Len(bouts) : \A b \in 1..Len(bouts) :
      a < b => bouts[a].date <= bouts[b].date

(***************************************************************************)
(* C4 as stated: a bootstrapping call ends in BootstrappingError exactly   *)
(* when cycle maxcycles - 1 completed with some fencer's rating moved by   *)
(* the threshold or more; when some cycle converged there is no error and  *)
(* the final pass runs.                                                    *)
(***************************************************************************)
ErrorOnlyWithoutConvergence ==
  /\ (pc = "raised" /\ outcome = "BootstrappingError")
       => (i = maxcycles - 1 /\ ~converged)
  /\ (bootstrapping /\ (pc = "final" \/ final_pass)) => converged

(***************************************************************************)
(* C5: the bootstrapping loop ends: it runs at most maxcycles cycles, it   *)
(* runs no further cycle after a cycle that converged, and every call that *)
(* entered the loop leaves it, for the final pass or with an exception.    *)
(***************************************************************************)
BootstrappingLoopEnds ==
  /\ []((bootstrapping /\ ~final_pass) => (i < maxcycles /\ passes <= maxcycles))
  /\ [][(pc = "check" /\ bootstrapping_converged(fencers, threshold_bootstrapping))
          => pc' # "cycle"]_vars
  /\ ((pc = "cycle") ~> (pc \in {"final", "raised"}))

\* The loop was left for the final pass before the cycles were used up, after
\* a cycle that had not converged.
LoopLeftEarly ==
  /\ pc = "final"
  /\ bootstrapping /\ converged
  /\ i >= 1
  /\ i + 1 < maxcycles

(***************************************************************************)
(* C6: a bout between two freshmen changes nothing: no fencer's fields and *)
(* not the set of fencers with a preliminary rating.                       *)
(***************************************************************************)
TwoFreshmenBoutIgnored ==
  [][(/\ pc = "stage"
       /\ fencers[bouts[k].first_fencer].freshman
       /\ fencers[bouts[k].second_fencer].freshman)
       => (/\ fencers' = fencers
           /\ fencers_with_preliminary_felo_rating'
                = fencers_with_preliminary_felo_rating)]_vars

\* A bout of two freshmen has been handed to set_preliminary_felo_ratings,
\* with a rated bout staged before it.
TwoFreshmenBoutStaged ==
  /\ pc = "boundary"
  /\ fencers[bouts[k].first_fencer].freshman
  /\ fencers[bouts[k].second_fencer].freshman
  /\ (fencers_with_preliminary_felo_rating # {} \/ k > 1)

(***************************************************************************)
(* C7 as stated: a foreign fencer's felo_rating_exact is the rating        *)
(* written in the name, whatever rating argument it was constructed with   *)
(* and whatever bouts it fences.                                           *)
(***************************************************************************)
ForeignRatingFixed ==
  \A n \in DOMAIN fencers :
    name_is_foreign(n)
      => felo_rating_exact(fencers[n]) = name_foreign_rating(n) * Milli

\* The first scenario: A (1600) beats B (1500) 5:2 in a bout fenced to 5,
\* neither with an initial weighting, one pass without bootstrapping.
scenario_rated_bout ==
  /\ pc \in {"return", "done"}
  /\ ~bootstrapping
  /\ input_roster["A"] = <<1600 * Milli, 0>>
  /\ input_roster["B"] = <<1500 * Milli, 0>>
  /\ input_bouts = <<Bout(1, 0, "A", "B", 5, 2, 5)>>

(***************************************************************************)
(* C8 as stated: in that scenario A ends at about 1602.44 and B at about   *)
(* 1497.56, and the two changes sum to zero.                               *)
(***************************************************************************)
RatedBoutAsStated ==
  scenario_rated_bout =>
    /\ Abs(fencers["A"].felo_rating - 1602440) <= 10
    /\ Abs(fencers["B"].felo_rating - 1497560) <= 10
    /\ (fencers["A"].felo_rating - 1600 * Milli)
         + (fencers["B"].felo_rating - 1500 * Milli) = 0

(***************************************************************************)
(* C8, amended: in that scenario both fencers have total weighting 0,      *)
(* below 15, so the k factor of freshmen (40) applies: A ends at about     *)
(* 1603.07 and B at about 1496.93, and the two changes sum to zero.        *)
(***************************************************************************)
RatedBoutWithFreshmanFactor ==
  scenario_rated_bout =>
    /\ Abs(fencers["A"].felo_rating - 1603074) <= 10
    /\ Abs(fencers["B"].felo_rating - 1496926) <= 10
    /\ (fencers["A"].felo_rating - 1600 * Milli)
         + (fencers["B"].felo_rating - 1500 * Milli) = 0

\* The scenario has run to its end.
RatedBoutDone ==
  /\ pc = "done"
  /\ scenario_rated_bout
  /\ fencers["A"].total_weighting > 0

\* The second scenario: freshman F fences twelve bouts against B (1500),
\* one pass without bootstrapping.
scenario_freshman ==
  /\ pc \in {"return", "done"}
  /\ input_roster = ScenarioRoster
  /\ Len(input_bouts) = ScenarioBouts

(***************************************************************************)
(* C9 as stated: after the twelve bouts, F winning each, F's               *)
(* felo_rating_exact lies strictly between 1500 and 2200, for every choice *)
(* of bout scores.                                                         *)
(***************************************************************************)
FreshmanEstimateAsStated ==
  scenario_freshman =>
    /\ felo_rating_exact(fencers["F"]) > 1500 * Milli
    /\ felo_rating_exact(fencers["F"]) < 2200 * Milli

(***************************************************************************)
(* C9, amended: after the twelve bouts, F winning each, F's                *)
(* felo_rating_exact lies strictly between 1500 and 2200 when F's          *)
(* accumulated weighting has reached 10 (5 point bouts for estimate), and  *)
(* is 0 otherwise; B's rating is untouched either way.                     *)
(***************************************************************************)
FreshmanEstimateByWeighting ==
  scenario_freshman =>
    /\ IF fencers["F"].total_weighting >= five_point_bouts_for_estimate * Milli
       THEN /\ felo_rating_exact(fencers["F"]) > 1500 * Milli
            /\ felo_rating_exact(fencers["F"]) < 2200 * Milli
       ELSE felo_rating_exact(fencers["F"]) = 0
    /\ fencers["B"].felo_rating = 1500 * Milli

\* F has fenced the twelve bouts, relay bouts as second fencer among them, and
\* has the weighting for an estimate.
FreshmanEstimated ==
  /\ pc = "done"
  /\ scenario_freshman
  /\ fencers["F"].total_weighting >= five_point_bouts_for_estimate * Milli
  /\ felo_rating_exact(fencers["F"]) > 1500 * Milli
  /\ \E p \in 1..Len(input_bouts) : input_bouts[p].second_fencer = "F"

(***************************************************************************)
(* C10: a call that follows another call, however that one ended, ends     *)
(* with exactly the fencers and the outcome that the same call gives from  *)
(* freshly constructed fencers and an empty set of fencers with a          *)
(* preliminary rating; that set is empty between calls.                    *)
(***************************************************************************)
CallsIndependent ==
  /\ pc \in {"idle", "constructed", "done", "raised"}
       => fencers_with_preliminary_felo_rating = {}
  /\ pc \in {"done", "raised"} =>
       LET r == calculate_felo_ratings(construct_fencers(input_roster), {},
                  input_bouts, bootstrapping, maxcycles,
                  threshold_bootstrapping, bootstrapping_callback)
       IN  /\ fencers = r.fencers
           /\ outcome = r.outcome

\* A call with rated bouts has returned after a call that ended in
\* BootstrappingError.
SecondCallDone ==
  /\ pc = "done"
  /\ previous_failed
  /\ \E n \in DOMAIN fencers :
       fencers[n].total_weighting > fencers[n].initial_total_weighting

(***************************************************************************)
(* expectation_value(first_fencer, second_fencer), in Micro.               *)
(***************************************************************************)
\* Mutant of expectation_value: the first fencer's preliminary rating is
\* read.
expectation_value_preliminary(first_fencer, second_fencer) ==
  elo_expectation(first_fencer.felo_rating_preliminary,
                  felo_rating_exact(second_fencer))

expectation_value(first_fencer, second_fencer) ==
  elo_expectation(felo_rating_exact(first_fencer),
                  felo_rating_exact(second_fencer))

VisibleRankingDescending ==
  pc = "done" =>
    /\ {visible_fencers[m] : m \in DOMAIN visible_fencers}
         = {n \in DOMAIN fencers : /\ ~fencers[n].hidden
                                   /\ ~fencers[n].freshman
                                   /\ ~fencers[n].foreign_fencer}
    /\ \A a \in DOMAIN visible_fencers : \A b \in DOMAIN visible_fencers :
         visible_fencers[a] = visible_fencers[b] => a = b
    /\ \A m \in 1..(Len(visible_fencers) - 1) :
         felo_rating_exact(fencers[visible_fencers[m]])
           >= felo_rating_exact(fencers[visible_fencers[m + 1]])

(***************************************************************************)
(* C13: when calculate_felo_ratings raises BootstrappingError, every       *)
(* fencer's ratings and accumulators are exactly those at the end of the   *)
(* last bootstrapping cycle (the result of one pass over the bouts from    *)
(* the fencers as that cycle found them): all maxcycles cycles were run,   *)
(* no further pass over the bouts is run and nothing is rolled back.       *)
(***************************************************************************)
BootstrappingErrorKeepsLastCycle ==
  pc = "raised" /\ outcome = "BootstrappingError" =>
    /\ ~final_pass
    /\ passes = maxcycles
    /\ fencers_with_preliminary_felo_rating = {}
    /\ i = maxcycles - 1
    /\ fencers = calculate_felo_ratings_core(pass_start, {}, bouts,
                                              Len(bouts)).fencers

\* C13, witness: BootstrappingError after two or more cycles that moved a
\* rating away from the initial one.
BootstrappingErrorAfterCycles ==
  /\ pc = "raised"
  /\ outcome = "BootstrappingError"
  /\ maxcycles >= 2
  /\ \E n \in DOMAIN fencers :
       /\ ~fencers[n].freshman
       /\ fencers[n].felo_rating # fencers[n].initial_felo_rating

(***************************************************************************)
(* parse_bouts: the bouts section of a Felo file is read line by line into *)
(* `bouts`; foreign fencers a line names are added to `fencers`.  A line   *)
(* is held as the groups of the line pattern: date 0 stands for a line     *)
(* without date, fenced_to -1 for a line without "/n" or "*" (and 0 for    *)
(* "*").  While parse_bouts runs, pc = "parsing", input_bouts are the      *)
(* lines, k is the number of the line to read and input_roster the         *)
(* fencers section that was read before.                                   *)
(***************************************************************************)
MaxLines == 2

LineUniverse ==
  {Bout(1, 0, "A", "B", 5, 2, 5),
   Bout(0, 0, "B", "A", 5, 4, -1),
   Bout(1, 0, "A", "X <1500>", 1, 0, 0),
   Bout(2, 0, "X <1500>", "U", 5, 3, 5),
   Bout(2, 0, "U", "A", 5, 3, 5),
   Bout(2, 0, "A", "B", 6, 2, 5),
   Bout(0, 1, "X <1500>", "B", 5, 1, -1)}

LineLists ==
  {ls \in UNION {[1..n -> LineUniverse] : n \in 0..MaxLines} :
     \A a \in DOMAIN ls : \A b \in DOMAIN ls : ls[a] = ls[b] => a = b}

\* The fencers sections: the foreign fencer is not listed, or listed with 0.
ListedRosters ==
  {[n \in Names \ {"X <1500>"} |-> r[n]] : r \in Rosters}
  \cup {r \in Rosters : r["X <1500>"][1] = 0}

\* parse_felo_file: fencers[current_fencer.name] = Fencer(name, ...), for the
\* names of the fencers section.
construct_listed_fencers(roster) ==
  [n \in DOMAIN roster |->
     Fencer_init(felo_file_name(n), roster[n][1], roster[n][2])]

\* last_year, last_month, last_day when line number m is read: the date of
\* the last line before it that has one (0: the names are unbound).
RECURSIVE last_date(_, _)
last_date(lines, m) ==
  IF m <= 1 THEN 0
  ELSE IF lines[m - 1].date # 0 THEN lines[m - 1].date
  ELSE last_date(lines, m - 1)

\* fencers[name] = Fencer(name, -1, parameters) if name is not in fencers
with_foreign_fencer(fs, name) ==
  IF name \in DOMAIN fs THEN fs
  ELSE [n \in DOMAIN fs \cup {name} |->
          IF n \in DOMAIN fs THEN fs[n] ELSE Fencer_init(n, -1 * Milli, 0)]

\* name not in fencers and name.find("<") == -1
fencer_is_unknown(fs, name) == name \notin DOMAIN fs /\ ~name_is_foreign(name)

\* The body of the loop of parse_bouts for one matching line.
parse_bout_line(fs, bs, line, last) ==
  LET fenced_to == IF line.fenced_to = -1
                   THEN Max(line.points_first, line.points_second)
                   ELSE line.fenced_to
      with_first == with_foreign_fencer(fs, line.first_fencer)
      with_second == with_foreign_fencer(with_first, line.second_fencer)
      date == IF line.date # 0 THEN line.date ELSE last
  IN  IF fenced_to > 0 /\ (line.points_first > fenced_to
                           \/ line.points_second > fenced_to)
      THEN [fencers |-> fs, bouts |-> bs, outcome |-> "LineError"]
      ELSE IF fencer_is_unknown(fs, line.first_fencer)
      THEN [fencers |-> fs, bouts |-> bs, outcome |-> "LineError"]
      ELSE IF fencer_is_unknown(with_first, line.second_fencer)
      THEN [fencers |-> with_first, bouts |-> bs, outcome |-> "LineError"]
      ELSE IF date = 0
      THEN [fencers |-> with_second, bouts |-> bs, outcome |-> "LineError"]
      ELSE [fencers |-> with_second,
            bouts |-> Append(bs, Bout(date, line.index, line.first_fencer,
                                      line.second_fencer, line.points_first,
                                      line.points_second, fenced_to)),
            outcome |-> "none"]

\* parse_felo_file up to the call of parse_bouts.
ParseStart ==
  /\ pc = "idle"
  /\ \E roster \in ListedRosters : \E lines \in LineLists :
       /\ fencers' = construct_listed_fencers(roster)
       /\ input_roster' = roster
       /\ input_bouts' = lines
  /\ bouts' = << >>
  /\ k' = 1
  /\ pc' = "parsing"
  /\ UNCHANGED <<fencers_with_preliminary_felo_rating, bootstrapping,
                 maxcycles, bootstrapping_callback, threshold_bootstrapping,
                 i, final_pass, outcome, pass_start, passes, converged,
                 previous_failed, visible_fencers>>
  /\ UNCHANGED prognosis

\* One line of the bouts section.
ParseLine ==
  /\ pc = "parsing"
  /\ k <= Len(input_bouts)
  /\ LET r == parse_bout_line(fencers, bouts, input_bouts[k],
                              last_date(input_bouts, k))
     IN  /\ fencers' = r.fencers
         /\ bouts' = r.bouts
         /\ outcome' = r.outcome
         /\ pc' = IF r.outcome = "LineError" THEN "raised" ELSE "parsing"
  /\ k' = k + 1
  /\ UNCHANGED <<fencers_with_preliminary_felo_rating, bootstrapping,
                 maxcycles, bootstrapping_callback, threshold_bootstrapping,
                 i, final_pass, input_roster, input_bouts, pass_start,
                 passes, converged, previous_failed, visible_fencers>>
  /\ UNCHANGED prognosis

\* The end of the file: parse_bouts returns the bouts, parse_felo_file the
\* fencers and the bouts.
ParseReturn ==
  /\ pc = "parsing"
  /\ k > Len(input_bouts)
  /\ pc' = "constructed"
  /\ pass_start' = fencers
  /\ UNCHANGED <<fencers, fencers_with_preliminary_felo_rating, bouts,
                 bootstrapping, maxcycles, bootstrapping_callback,
                 threshold_bootstrapping, i, k, final_pass, outcome,
                 input_roster, input_bouts, passes, converged,
                 previous_failed, visible_fencers>>
  /\ UNCHANGED prognosis

NextParse ==
  \/ ParseStart
  \/ ParseLine
  \/ ParseReturn
  \/ Release

ParseSpec == Init /\ [][NextParse]_vars

(***************************************************************************)
(* C14: when parse_bouts rejects a bout line (unknown fencer without a     *)
(* foreign-rating annotation, or points exceeding the winning threshold),  *)
(* no mutation has been applied: fencers has the same key set and every    *)
(* fencer the same state as before the call.                               *)
(***************************************************************************)
RejectionLeavesFencers ==
  /\ pc = "raised"
  /\ outcome = "LineError"
  /\ input_bouts[k - 1].date # 0 \/ last_date(input_bouts, k - 1) # 0
  => /\ DOMAIN fencers = DOMAIN input_roster
     /\ fencers = construct_listed_fencers(input_roster)

(***************************************************************************)
(* C15 as stated: during a pass a commit (adopt_preliminary_felo_ratings)  *)
(* happens after bout k exactly when bout k is the last bout or the next   *)
(* bout has a different calendar date; two consecutive bouts with the same *)
(* date and different index are never separated by a commit.               *)
(***************************************************************************)
CommitWhenDateChanges ==
  [][pc = "boundary" =>
       IF k = Len(bouts) \/ bouts[k].date # bouts[k + 1].date
       THEN /\ fencers' = adopt_preliminary_felo_ratings(fencers,
                            fencers_with_preliminary_felo_rating).fencers
            /\ fencers_with_preliminary_felo_rating' = {}
       ELSE UNCHANGED <<fencers, fencers_with_preliminary_felo_rating>>]_vars

(***************************************************************************)
(* C15, amended: a commit happens after bout k exactly when bout k is the  *)
(* last bout or the next bout has a different date_string, that is a       *)
(* different calendar date or a different index; two consecutive bouts     *)
(* with the same date and different index are separated by a commit.       *)
(***************************************************************************)
CommitWhenDateStringChanges ==
  [][pc = "boundary" =>
       IF \/ k = Len(bouts)
          \/ bouts[k].date # bouts[k + 1].date
          \/ bouts[k].index # bouts[k + 1].index
       THEN /\ fencers' = adopt_preliminary_felo_ratings(fencers,
                            fencers_with_preliminary_felo_rating).fencers
            /\ fencers_with_preliminary_felo_rating' = {}
       ELSE UNCHANGED <<fencers, fencers_with_preliminary_felo_rating>>]_vars

\* C15, witness: the next bout to stage has the date of the bout before it
\* and another index, and the bout before it is committed.
CommittedWithinOneDate ==
  /\ pc = "stage"
  /\ k > 1
  /\ bouts[k - 1].date = bouts[k].date
  /\ bouts[k - 1].index # bouts[k].index
  /\ fencers_with_preliminary_felo_rating = {}
  /\ \E n \in DOMAIN fencers :
       /\ ~fencers[n].freshman
       /\ fencers[n].total_weighting > pass_start[n].total_weighting
       /\ fencers[n].felo_rating # pass_start[n].felo_rating

\* The number of the first bout of the batch that bout number n of bs
\* belongs to.
RECURSIVE batch_start(_, _)
batch_start(bs, n) ==
  IF n > 1 /\ date_string(bs[n - 1]) = date_string(bs[n])
  THEN batch_start(bs, n - 1) ELSE n

\* The fencers of the rated bouts (both fencers rated) among bouts number
\* from..to of bs.
rated_bout_fencers(fs, bs, from, to) ==
  {n \in DOMAIN fs :
     \E j \in from..to :
       /\ n \in {bs[j].first_fencer, bs[j].second_fencer}
       /\ ~fs[bs[j].first_fencer].freshman
       /\ ~fs[bs[j].second_fencer].freshman}

(***************************************************************************)
(* C16 as stated: immediately after every commit at a batch boundary,      *)
(* every fencer that took part in a rated bout of that batch has           *)
(* felo_rating_exact equal to its felo_rating_preliminary and              *)
(* total_weighting equal to its total_weighting_preliminary, and the set   *)
(* of fencers with pending preliminary ratings is empty.                   *)
(***************************************************************************)
CommitAdoptsPreliminary ==
  [][pc = "boundary" /\ (k = Len(bouts)
                         \/ bouts[k].date # bouts[k + 1].date
                         \/ bouts[k].index # bouts[k + 1].index)
     => /\ fencers_with_preliminary_felo_rating' = {}
        /\ \A n \in rated_bout_fencers(fencers, bouts,
                                       batch_start(bouts, k), k) :
             /\ felo_rating_exact(fencers'[n])
                  = fencers'[n].felo_rating_preliminary
             /\ fencers'[n].total_weighting
                  = fencers'[n].total_weighting_preliminary]_vars

(***************************************************************************)
(* C16, amended: immediately after every commit at a batch boundary, every *)
(* fencer that took part in a rated bout of that batch has total_weighting *)
(* equal to its total_weighting_preliminary; its felo_rating_exact is its  *)
(* felo_rating_preliminary raised to the minimal Felo rating if it is not  *)
(* a foreign fencer, and its fixed rating if it is; the set of fencers     *)
(* with pending preliminary ratings is empty.                              *)
(***************************************************************************)
CommitAdoptsFlooredPreliminary ==
  [][pc = "boundary" /\ (k = Len(bouts)
                         \/ bouts[k].date # bouts[k + 1].date
                         \/ bouts[k].index # bouts[k + 1].index)
     => /\ fencers_with_preliminary_felo_rating' = {}
        /\ \A n \in rated_bout_fencers(fencers, bouts,
                                       batch_start(bouts, k), k) :
             /\ fencers'[n].felo_rating_preliminary
                  = fencers[n].felo_rating_preliminary
             /\ fencers'[n].total_weighting_preliminary
                  = fencers[n].total_weighting_preliminary
             /\ felo_rating_exact(fencers'[n])
                  = IF fencers[n].foreign_fencer
                    THEN felo_rating_exact(fencers[n])
                    ELSE Max(fencers[n].felo_rating_preliminary,
                             minimal_felo_rating * Milli)
             /\ fencers'[n].total_weighting
                  = fencers[n].total_weighting_preliminary]_vars

\* C16, witness: a batch is just committed in which a fencer took part
\* whose preliminary rating is below the minimal Felo rating.
CommittedAtTheFloor ==
  /\ pc \in {"stage", "check", "return"}
  /\ k > 1
  /\ k - 1 = Len(bouts) \/ date_string(bouts[k - 1]) # date_string(bouts[k])
  /\ fencers_with_preliminary_felo_rating = {}
  /\ \E n \in rated_bout_fencers(fencers, bouts,
                                 batch_start(bouts, k - 1), k - 1) :
       /\ ~fencers[n].foreign_fencer
       /\ fencers[n].felo_rating_preliminary < minimal_felo_rating * Milli
       /\ fencers[n].felo_rating = minimal_felo_rating * Milli
       /\ fencers[n].total_weighting > pass_start[n].total_weighting

\* The k factor of a fencer as its attributes give it: "k factor freshmen"
\* below "5 point bouts freshmen", else the stored one.
k_factor_in_force(self) ==
  IF self.total_weighting < five_point_bouts_freshmen * Milli
  THEN k_factor_freshmen ELSE self.k_factor

\* (result_first - expectation_first) * weighting of a bout, the expectation
\* taken from the committed ratings of fs (in Micro).
improvement_from_committed(fs, bout) ==
  LET e == elo_expectation(felo_rating_exact(fs[bout.first_fencer]),
                           felo_rating_exact(fs[bout.second_fencer]))
      max_points == Max(bout.points_first, bout.points_second)
      expectation_first == IF bout.fenced_to = 0 /\ max_points <= 15 /\ e < Micro
                           THEN bias_corrected(e, max_points) ELSE e
  IN  MulDiv(bout_result_first(bout) - expectation_first,
             bout_weighting(bout), Milli)

(***************************************************************************)
(* C17: for a bout between two rated fencers A (first) and B (second),     *)
(* staging adds k_factor(A) * improvement to felo_rating_preliminary of A  *)
(* and subtracts k_factor(B) * improvement from that of B, with            *)
(* improvement = (result_first - expectation) * weighting computed from    *)
(* the committed ratings of both and each side using its own k factor;     *)
(* when the two k factors are equal the two staged changes sum to zero.    *)
(***************************************************************************)
StagingOfRatedBout ==
  [][pc = "stage" /\ ~fencers[bouts[k].first_fencer].freshman
                  /\ ~fencers[bouts[k].second_fencer].freshman
     => LET A == bouts[k].first_fencer
            B == bouts[k].second_fencer
            improvement == improvement_from_committed(fencers, bouts[k])
            change_A == fencers'[A].felo_rating_preliminary
                          - fencers[A].felo_rating_preliminary
            change_B == fencers'[B].felo_rating_preliminary
                          - fencers[B].felo_rating_preliminary
        IN  /\ change_A = RoundDiv(k_factor_in_force(fencers[A]) * improvement,
                                   Milli)
            /\ change_B = -RoundDiv(k_factor_in_force(fencers[B]) * improvement,
                                    Milli)
            /\ k_factor_in_force(fencers[A]) = k_factor_in_force(fencers[B])
                 => change_A + change_B = 0
            /\ felo_rating_exact(fencers'[A]) = felo_rating_exact(fencers[A])
            /\ felo_rating_exact(fencers'[B]) = felo_rating_exact(fencers[B])]_vars

\* C17, witness: the second bout of a batch between two rated fencers with
\* different k factors is staged, and both preliminary ratings have moved.
RatedBoutStaged ==
  /\ pc = "boundary"
  /\ k > 1
  /\ ~batch_ends(bouts, k - 1)
  /\ ~fencers[bouts[k].first_fencer].freshman
  /\ ~fencers[bouts[k].second_fencer].freshman
  /\ {bouts[k].first_fencer, bouts[k].second_fencer}
       \subseteq fencers_with_preliminary_felo_rating
  /\ k_factor_in_force(fencers[bouts[k].first_fencer])
       # k_factor_in_force(fencers[bouts[k].second_fencer])
  /\ fencers[bouts[k].first_fencer].felo_rating_preliminary
       # pass_start[bouts[k].first_fencer].felo_rating_preliminary
  /\ fencers[bouts[k].second_fencer].felo_rating_preliminary
       # pass_start[bouts[k].second_fencer].felo_rating_preliminary

(***************************************************************************)
(* C18: for a bout with exactly one freshman, the freshman's               *)
(* total_weighting grows by the bout's weighting, its total_result by      *)
(* (its own share of the points - 0.5) * weighting, whichever position it  *)
(* fences in, and its total_felo_rating_opponents by the opponent's        *)
(* committed felo_rating_exact times the weighting.                        *)
(***************************************************************************)
StagingOfFreshmanBout ==
  [][pc = "stage" /\ (fencers[bouts[k].first_fencer].freshman
                        # fencers[bouts[k].second_fencer].freshman)
     => LET bout == bouts[k]
            is_first == fencers[bout.first_fencer].freshman
            freshman == IF is_first THEN bout.first_fencer
                        ELSE bout.second_fencer
            opponent == IF is_first THEN bout.second_fencer
                        ELSE bout.first_fencer
            own_share == IF is_first THEN bout_result_first(bout)
                         ELSE Micro - bout_result_first(bout)
        IN  /\ fencers'[freshman].total_weighting
                 = fencers[freshman].total_weighting + bout_weighting(bout)
            /\ fencers'[freshman].total_result
                 = fencers[freshman].total_result
                     + MulDiv(own_share - Micro \div 2, bout_weighting(bout),
                              Milli)
            /\ fencers'[freshman].total_felo_rating_opponents
                 = fencers[freshman].total_felo_rating_opponents
                     + MulDiv(felo_rating_exact(fencers[opponent]),
                              bout_weighting(bout), Milli)]_vars

\* C18, witness: a bout of a rated fencer against a freshman who fences
\* second and loses is staged.
FreshmanBoutStaged ==
  /\ pc = "boundary"
  /\ ~fencers[bouts[k].first_fencer].freshman
  /\ fencers[bouts[k].second_fencer].freshman
  /\ bouts[k].points_second < bouts[k].points_first
  /\ fencers[bouts[k].second_fencer].total_result
       < pass_start[bouts[k].second_fencer].total_result
  /\ fencers[bouts[k].second_fencer].total_felo_rating_opponents
       > pass_start[bouts[k].second_fencer].total_felo_rating_opponents

(***************************************************************************)
(* C19 as stated: a bout with exactly one freshman leaves the rated        *)
(* opponent completely unchanged: its felo_rating_exact,                   *)
(* felo_rating_preliminary, total_weighting, total_weighting_preliminary   *)
(* and k factor are the same before and after the bout and after the       *)
(* following commit, and it is not added to the set of fencers with        *)
(* pending preliminary ratings.                                            *)
(***************************************************************************)
OpponentOfFreshmanUnchanged ==
  [][/\ pc \in {"stage", "boundary"}
     /\ (fencers[bouts[k].first_fencer].freshman
           # fencers[bouts[k].second_fencer].freshman)
     => LET opponent == IF fencers[bouts[k].first_fencer].freshman
                        THEN bouts[k].second_fencer ELSE bouts[k].first_fencer
        IN  /\ pc = "stage"
               => /\ fencers'[opponent] = fencers[opponent]
                  /\ fencers_with_preliminary_felo_rating'
                       = fencers_with_preliminary_felo_rating
            /\ pc = "boundary" /\ pc' # "boundary"
               => fencers'[opponent] = fencers[opponent]]_vars

(***************************************************************************)
(* C19, amended: a bout with exactly one freshman leaves the rated         *)
(* opponent completely unchanged and does not add it to the set of fencers *)
(* with pending preliminary ratings; the step after the bout (with the     *)
(* commit, if the batch ends) leaves it unchanged as well unless a rated   *)
(* bout of the same batch has put it into that set.                        *)
(***************************************************************************)
OpponentOfFreshmanUnchangedByBout ==
  [][/\ pc \in {"stage", "boundary"}
     /\ (fencers[bouts[k].first_fencer].freshman
           # fencers[bouts[k].second_fencer].freshman)
     => LET opponent == IF fencers[bouts[k].first_fencer].freshman
                        THEN bouts[k].second_fencer ELSE bouts[k].first_fencer
        IN  /\ pc = "stage"
               => /\ fencers'[opponent] = fencers[opponent]
                  /\ fencers_with_preliminary_felo_rating'
                       = fencers_with_preliminary_felo_rating
            /\ pc = "boundary" /\ pc' # "boundary"
                 /\ opponent \notin fencers_with_preliminary_felo_rating
               => fencers'[opponent] = fencers[opponent]]_vars

\* C19, witness: after a bout of a rated fencer and a freshman the batch is
\* committed, and the rated fencer is as the pass found it.
FreshmanBoutCommitted ==
  /\ pc \in {"stage", "check", "return"}
  /\ k > 1
  /\ batch_ends(bouts, k - 1)
  /\ ~fencers[bouts[k - 1].first_fencer].freshman
  /\ fencers[bouts[k - 1].second_fencer].freshman
  /\ fencers[bouts[k - 1].second_fencer].total_weighting
       > pass_start[bouts[k - 1].second_fencer].total_weighting
  /\ fencers[bouts[k - 1].first_fencer] = pass_start[bouts[k - 1].first_fencer]
  /\ fencers_with_preliminary_felo_rating = {}

MaxPoints == 16

WideScores ==
  {<<0, 0>>, <<1, 0>>, <<5, 3>>, <<3, 5>>, <<15, 14>>,
   <<MaxPoints, 10>>, <<10, MaxPoints>>}

WidePairs ==
  {<<"A", "B">>, <<"B", "A">>, <<"A", "X <1500>">>, <<"X <1500>", "A">>,
   <<"A", "F">>, <<"F", "A">>}

WideBouts ==
  {Bout(1, 0, p[1], p[2], s[1], s[2], f) :
     p \in WidePairs, s \in WideScores, f \in {0, 5, 15, MaxPoints}}

\* parse_bouts: fenced_to is the larger score when the line has no "/n",
\* 0 for "*"; a line with more points than fenced_to > 0 is rejected.
bout_is_admissible(bout) ==
  LET max_points == Max(bout.points_first, bout.points_second)
  IN  bout.fenced_to = 0 \/ bout.fenced_to >= max_points

WideInputs ==
  {<<r, <<b>>, <<FALSE, 1, 1, FALSE>>>> :
     r \in Rosters, b \in {w \in WideBouts : bout_is_admissible(w)}}

NewBoutRun ==
  /\ pc = "idle"
  /\ \E inp \in WideInputs :
       /\ fencers' = construct_fencers(inp[1])
       /\ bouts' = inp[2]
       /\ input_roster' = inp[1]
       /\ input_bouts' = inp[2]
       /\ bootstrapping' = inp[3][1]
       /\ maxcycles' = inp[3][2]
       /\ threshold_bootstrapping' = inp[3][3]
       /\ bootstrapping_callback' = inp[3][4]
       /\ pass_start' = construct_fencers(inp[1])
  /\ pc' = "constructed"
  /\ UNCHANGED <<fencers_with_preliminary_felo_rating, i, k, final_pass,
                 outcome, passes, converged,
                 previous_failed, visible_fencers>>
  /\ UNCHANGED prognosis

NextBout ==
  \/ NewBoutRun
  \/ Release
  \/ Call
  \/ Stage
  \/ Boundary
  \/ FinalPass
  \/ Return

BoutSpec == Init /\ [][NextBout]_vars

\* 1 / (1 + 10**((felo_second - felo_first)/400.0)) of a bout, from the
\* committed ratings of fs, before any adjustment.
elo_expectation_of_bout(fs, bout) ==
  elo_expectation(felo_rating_exact(fs[bout.first_fencer]),
                  felo_rating_exact(fs[bout.second_fencer]))

\* What staging adds to felo_rating_preliminary of the first fencer of a
\* bout when expectation_first has the given value.
staged_change_first(fs, bout, expectation_first) ==
  RoundDiv(k_factor_in_force(fs[bout.first_fencer])
             * MulDiv(bout_result_first(bout) - expectation_first,
                      bout_weighting(bout), Milli),
           Milli)

(***************************************************************************)
(* C21 as stated: the bias correction of the expectation value is never    *)
(* applied to a bout that is weighted with "weighting team bout"           *)
(* (fenced_to = 0) and never to a bout with max_points > 15: the staged    *)
(* change of such a bout is the one of the uncorrected expectation.        *)
(***************************************************************************)
BiasCorrectionNotForTeamWeighting ==
  [][pc = "stage" /\ ~fencers[bouts[k].first_fencer].freshman
                  /\ ~fencers[bouts[k].second_fencer].freshman
                  /\ (bouts[k].fenced_to = 0
                      \/ Max(bouts[k].points_first, bouts[k].points_second) > 15)
     => fencers'[bouts[k].first_fencer].felo_rating_preliminary
          - fencers[bouts[k].first_fencer].felo_rating_preliminary
        = staged_change_first(fencers, bouts[k],
                              elo_expectation_of_bout(fencers, bouts[k]))]_vars

(***************************************************************************)
(* C21, amended: the bias correction of the expectation value is applied   *)
(* to exactly the bouts weighted with "weighting team bout" (fenced_to =   *)
(* 0) that have max_points <= 15 and an expectation below 1; it is never   *)
(* applied to a bout weighted by its total points (fenced_to > 0) and      *)
(* never to a bout with max_points > 15.                                   *)
(***************************************************************************)
BiasCorrectionOnlyForTeamWeighting ==
  [][pc = "stage" /\ ~fencers[bouts[k].first_fencer].freshman
                  /\ ~fencers[bouts[k].second_fencer].freshman
     => LET bout == bouts[k]
            max_points == Max(bout.points_first, bout.points_second)
            e == elo_expectation_of_bout(fencers, bout)
            change_first == fencers'[bout.first_fencer].felo_rating_preliminary
                              - fencers[bout.first_fencer].felo_rating_preliminary
        IN  /\ bout.fenced_to # 0 \/ max_points > 15
                 => change_first = staged_change_first(fencers, bout, e)
            /\ bout.fenced_to = 0 /\ max_points <= 15 /\ e < Micro
                 => change_first
                      = staged_change_first(fencers, bout,
                                            bias_corrected(e, max_points))]_vars

\* C21, witness: a relay bout with max_points <= 15 between two rated
\* fencers is staged, and the first fencer's preliminary rating has moved by
\* the change of the corrected expectation, which is not the change of the
\* uncorrected one.
TeamWeightedBoutCorrected ==
  /\ pc = "boundary"
  /\ k = 1
  /\ ~fencers[bouts[k].first_fencer].freshman
  /\ ~fencers[bouts[k].second_fencer].freshman
  /\ bouts[k].fenced_to = 0
  /\ bout_weighting(bouts[k]) = weighting_team_bout * Milli
  /\ Max(bouts[k].points_first, bouts[k].points_second) <= 15
  /\ LET e == elo_expectation_of_bout(pass_start, bouts[k])
         change_first == fencers[bouts[k].first_fencer].felo_rating_preliminary
                           - pass_start[bouts[k].first_fencer].felo_rating_preliminary
     IN  /\ e < Micro
         /\ change_first
              = staged_change_first(pass_start, bouts[k],
                  bias_corrected(e, Max(bouts[k].points_first,
                                        bouts[k].points_second)))
         /\ change_first # staged_change_first(pass_start, bouts[k], e)

\* int(expectation_first*100): the index of the lower of the two rows of
\* apparent_expectation_values that the adjustment reads.
bias_low_index(expectation_first) == expectation_first \div 10000

\* max_points-1: the index of the column that the adjustment reads (a
\* negative index counts from the end of the row).
bias_column_index(max_points) == max_points - 1

(***************************************************************************)
(* C22: whenever set_preliminary_felo_ratings applies the bias correction  *)
(* (fenced_to = 0, max_points <= 15, expectation < 1), for every           *)
(* admissible bout including a 0:0 relay bout, the two rows read are       *)
(* low_index and low_index + 1 with 0 <= low_index <= 99, and the column   *)
(* read is max_points - 1 with 0 <= max_points - 1 <= 14.                  *)
(***************************************************************************)
BiasTableIndicesInRange ==
  pc = "stage" /\ ~fencers[bouts[k].first_fencer].freshman
               /\ ~fencers[bouts[k].second_fencer].freshman
               /\ bouts[k].fenced_to = 0
               /\ Max(bouts[k].points_first, bouts[k].points_second) <= 15
               /\ elo_expectation_of_bout(fencers, bouts[k]) < Micro
  => LET low_index == bias_low_index(elo_expectation_of_bout(fencers, bouts[k]))
         column == bias_column_index(Max(bouts[k].points_first,
                                         bouts[k].points_second))
     IN  /\ 0 <= low_index /\ low_index <= 99
         /\ low_index + 2 \in DOMAIN apparent_expectation_values
         /\ 0 <= column /\ column <= 14

CallbackFractionDefined ==
  /\ pc = "cycle" /\ bootstrapping_callback /\ i % 10 = 0
       => /\ maxcycles >= 1
          /\ maxcycles - 1 # 0
          /\ 0 <= i /\ i <= maxcycles - 1
  /\ outcome # "ZeroDivisionError"

(***************************************************************************)
(* C25: the convergence decision of a bootstrapping cycle depends only on  *)
(* the fencers that are not freshmen: the cycle counts as converged        *)
(* exactly when no such fencer's felo_rating_exact differs from its value  *)
(* at the start of the cycle by the threshold or more, so a change of a    *)
(* freshman's estimate during the cycle never makes the cycle count as not *)
(* converged.                                                              *)
(***************************************************************************)
ConvergenceIgnoresFreshmen ==
  [][pc = "check"
     => converged'
          = \A n \in DOMAIN fencers :
              ~fencers[n].freshman
              => Abs(felo_rating_exact(pass_start[n]) - felo_rating_exact(fencers[n]))
                   < threshold_bootstrapping]_vars

\* A bout between a foreign fencer and a rated fencer that is not foreign
\* (neither is a freshman).
foreign_against_rated(fs, bout) ==
  /\ ~fs[bout.first_fencer].freshman
  /\ ~fs[bout.second_fencer].freshman
  /\ fs[bout.first_fencer].foreign_fencer # fs[bout.second_fencer].foreign_fencer

\* The foreign fencer of such a bout.
foreign_side(fs, bout) ==
  IF fs[bout.first_fencer].foreign_fencer THEN bout.first_fencer
  ELSE bout.second_fencer

\* What staging adds to felo_rating_preliminary of fencer n of a bout.
staged_change(fs, bout, n) ==
  LET change == RoundDiv(k_factor_in_force(fs[n])
                           * improvement_from_committed(fs, bout), Milli)
  IN  IF n = bout.first_fencer THEN change ELSE -change

(***************************************************************************)
(* C26 as stated: in a bout between a foreign fencer and a rated fencer    *)
(* that is not foreign, nothing is staged for the foreign side: its        *)
(* felo_rating_preliminary, total_weighting_preliminary and (after the     *)
(* commit) total_weighting are unchanged, while the other fencer's change  *)
(* of rating and weighting are staged as usual.                            *)
(***************************************************************************)
ForeignSideNotStaged ==
  [][(pc \in {"stage", "boundary"}) /\ foreign_against_rated(fencers, bouts[k])
     => LET f == foreign_side(fencers, bouts[k])
            o == CHOOSE n \in {bouts[k].first_fencer, bouts[k].second_fencer} : n # f
        IN  /\ fencers'[f].felo_rating_preliminary = fencers[f].felo_rating_preliminary
            /\ fencers'[f].total_weighting_preliminary
                 = fencers[f].total_weighting_preliminary
            /\ fencers'[f].total_weighting = fencers[f].total_weighting
            /\ pc = "stage"
                 => (/\ fencers'[o].felo_rating_preliminary
                          = fencers[o].felo_rating_preliminary
                              + staged_change(fencers, bouts[k], o)
                     /\ fencers'[o].total_weighting_preliminary
                          = fencers[o].total_weighting_preliminary
                              + bout_weighting(bouts[k]))]_vars

(***************************************************************************)
(* C26, amended: in a bout between a foreign fencer and a rated fencer     *)
(* that is not foreign, both sides are staged as usual: each fencer's      *)
(* felo_rating_preliminary moves by its own k factor times the             *)
(* improvement, each total_weighting_preliminary grows by the weighting,   *)
(* and both fencers are pending; the commit sets each side's               *)
(* total_weighting to its total_weighting_preliminary and leaves only the  *)
(* foreign fencer's felo_rating_exact unchanged.                           *)
(***************************************************************************)
ForeignSideStagedRatingFixed ==
  [][(pc \in {"stage", "boundary"}) /\ foreign_against_rated(fencers, bouts[k])
     => LET f == foreign_side(fencers, bouts[k])
            both == {bouts[k].first_fencer, bouts[k].second_fencer}
        IN  /\ pc = "stage"
                 => /\ \A n \in both :
                         /\ fencers'[n].felo_rating_preliminary
                              = fencers[n].felo_rating_preliminary
                                  + staged_change(fencers, bouts[k], n)
                         /\ fencers'[n].total_weighting_preliminary
                              = fencers[n].total_weighting_preliminary
                                  + bout_weighting(bouts[k])
                         /\ fencers'[n].total_weighting = fencers[n].total_weighting
                    /\ both \subseteq fencers_with_preliminary_felo_rating'
            /\ pc = "boundary" /\ batch_ends(bouts, k)
                 => \A n \in both :
                      /\ fencers'[n].total_weighting
                           = fencers[n].total_weighting_preliminary
                      /\ fencers'[n].felo_rating_preliminary
                           = fencers[n].felo_rating_preliminary
            /\ felo_rating_exact(fencers'[f]) = felo_rating_exact(fencers[f])]_vars

\* C26, witness: the bout of a foreign fencer and a rated fencer is
\* committed: the foreign fencer's preliminary rating and both its
\* weightings have moved, its rating has not; the other fencer's rating has.
ForeignBoutCommitted ==
  /\ pc = "return"
  /\ Len(bouts) = 1
  /\ foreign_against_rated(pass_start, bouts[1])
  /\ LET f == foreign_side(pass_start, bouts[1])
         o == CHOOSE n \in {bouts[1].first_fencer, bouts[1].second_fencer} : n # f
     IN  /\ fencers[f].felo_rating_preliminary # pass_start[f].felo_rating_preliminary
         /\ fencers[f].total_weighting_preliminary
              = pass_start[f].total_weighting_preliminary + bout_weighting(bouts[1])
         /\ fencers[f].total_weighting
              = pass_start[f].total_weighting + bout_weighting(bouts[1])
         /\ felo_rating_exact(fencers[f]) = felo_rating_exact(pass_start[f])
         /\ felo_rating_exact(fencers[o]) # felo_rating_exact(pass_start[o])

(***************************************************************************)
(* prognosticate_bout(first_fencer, second_fencer, fenced_to).  The        *)
(* winning chance is read from the data file auf<fenced_to>.dat, which is  *)
(* not part of the sources: it is an input, winning_chance_first (Micro).  *)
(***************************************************************************)
MaxFencedTo == 15

\* points_first, points_second before the tie is resolved
prognosticated_points(first_fencer, second_fencer, fenced_to) ==
  LET expectation_first == expectation_value(first_fencer, second_fencer)
  IN  IF expectation_first > Micro \div 2
      THEN <<fenced_to,
             RoundDiv(fenced_to * (Micro - expectation_first), expectation_first)>>
      ELSE <<RoundDiv(fenced_to * expectation_first, Micro - expectation_first),
             fenced_to>>

\* Mutant of prognosticate_bout: a tie is returned as it is.
prognosticate_bout_with_ties(first_fencer, second_fencer, fenced_to, winning_chance_first) ==
  LET points == prognosticated_points(first_fencer, second_fencer, fenced_to)
  IN  <<points[1], points[2], RoundDiv(winning_chance_first, 10000)>>

prognosticate_bout(first_fencer, second_fencer, fenced_to, winning_chance_first) ==
  LET points == prognosticated_points(first_fencer, second_fencer, fenced_to)
      points_first == IF points[1] = points[2] /\ ~(winning_chance_first > Micro \div 2)
                      THEN points[1] - 1 ELSE points[1]
      points_second == IF points[1] = points[2] /\ winning_chance_first > Micro \div 2
                       THEN points[2] - 1 ELSE points[2]
  IN  <<points_first, points_second, RoundDiv(winning_chance_first, 10000)>>

\* The winning chances that the data file may hold for the line found.
WinningChances == {0, Micro \div 2, Micro \div 2 + 1, Micro}

\* A caller asks for the prognosis of a bout of two of its fencers after
\* the ratings are calculated; prognosis holds fenced_to, the points before
\* the tie is resolved, and the returned tuple.
Prognosticate ==
  /\ pc = "done"
  /\ \E first \in DOMAIN fencers, second \in DOMAIN fencers,
        fenced_to \in 1..MaxFencedTo, chance \in WinningChances :
       prognosis' =
         [fenced_to |-> fenced_to,
          rounded |-> prognosticated_points(fencers[first], fencers[second],
                                            fenced_to),
          returned |-> prognosticate_bout(fencers[first], fencers[second],
                                          fenced_to, chance)]
  /\ pc' = "prognosticated"
  /\ UNCHANGED <<fencers, fencers_with_preliminary_felo_rating, bouts,
                 bootstrapping, maxcycles, bootstrapping_callback,
                 threshold_bootstrapping, i, k, final_pass, outcome,
                 input_roster, input_bouts, pass_start, passes, converged,
                 previous_failed, visible_fencers>>

\* The caller has used the prognosis.
PrognosisUsed ==
  /\ pc = "prognosticated"
  /\ prognosis' = << >>
  /\ pc' = "done"
  /\ UNCHANGED <<fencers, fencers_with_preliminary_felo_rating, bouts,
                 bootstrapping, maxcycles, bootstrapping_callback,
                 threshold_bootstrapping, i, k, final_pass, outcome,
                 input_roster, input_bouts, pass_start, passes, converged,
                 previous_failed, visible_fencers>>

NextPrognosis ==
  \/ NewBoutRun
  \/ Release
  \/ Call
  \/ Stage
  \/ Boundary
  \/ FinalPass
  \/ Return
  \/ Prognosticate
  \/ PrognosisUsed

PrognosisSpec == Init /\ [][NextPrognosis]_vars

(***************************************************************************)
(* C27: prognosticate_bout never returns a tie: for every pair of fencers  *)
(* and every fenced_to in 1..15 the returned points differ, both are >= 0  *)
(* and the larger of the two equals fenced_to; when the rounded score is a *)
(* tie, exactly one side's points are reduced by one (and otherwise the    *)
(* rounded score is returned).                                             *)
(***************************************************************************)
PrognosisIsNoTie ==
  pc = "prognosticated"
  => LET points_first == prognosis.returned[1]
         points_second == prognosis.returned[2]
         rounded == prognosis.rounded
     IN  /\ points_first # points_second
         /\ points_first >= 0
         /\ points_second >= 0
         /\ Max(points_first, points_second) = prognosis.fenced_to
         /\ rounded[1] = rounded[2]
              => \/ <<points_first, points_second>> = <<rounded[1] - 1, rounded[2]>>
                 \/ <<points_first, points_second>> = <<rounded[1], rounded[2] - 1>>
         /\ rounded[1] # rounded[2]
              => <<points_first, points_second>> = rounded

\* C27, witness: the rounded score of a prognosis to 15 points was the tie
\* 15:15, and 14:15 is returned.
PrognosisTieResolved ==
  /\ pc = "prognosticated"
  /\ prognosis.fenced_to = MaxFencedTo
  /\ prognosis.rounded = <<MaxFencedTo, MaxFencedTo>>
  /\ prognosis.returned[1] = MaxFencedTo - 1
  /\ prognosis.returned[2] = MaxFencedTo

\* The sum of the changes that the rated bouts number from..to of bs stage
\* for fencer n, the committed ratings and weightings being those of fs
\* (they do not change within a batch).
RECURSIVE staged_changes(_, _, _, _, _)
staged_changes(fs, bs, from, to, n) ==
  IF from > to THEN 0
  ELSE (IF /\ n \in {bs[from].first_fencer, bs[from].second_fencer}
           /\ ~fs[bs[from].first_fencer].freshman
           /\ ~fs[bs[from].second_fencer].freshman
        THEN staged_change(fs, bs[from], n) ELSE 0)
       + staged_changes(fs, bs, from + 1, to, n)

(***************************************************************************)
(* C28: for every rated fencer that is not foreign and every batch, the    *)
(* committed felo_rating_exact after the batch equals max(minimal Felo     *)
(* rating, committed felo_rating_exact before the batch + the sum of the   *)
(* changes staged for that fencer in the batch); in particular a fencer    *)
(* whose rating sits at the floor and whose staged changes of a batch sum  *)
(* to a positive value ends that batch strictly above the floor.           *)
(***************************************************************************)
CommitAddsStagedChanges ==
  [][(pc = "boundary") /\ batch_ends(bouts, k)
     => \A n \in rated_bout_fencers(fencers, bouts, batch_start(bouts, k), k) :
          ~fencers[n].foreign_fencer
          => LET staged == staged_changes(fencers, bouts,
                                          batch_start(bouts, k), k, n)
             IN  /\ felo_rating_exact(fencers'[n])
                      = Max(minimal_felo_rating * Milli,
                            felo_rating_exact(fencers[n]) + staged)
                 /\ felo_rating_exact(fencers[n]) = minimal_felo_rating * Milli
                    /\ staged > 0
                      => felo_rating_exact(fencers'[n])
                           > minimal_felo_rating * Milli]_vars

RECURSIVE freshman_weightings(_, _, _, _, _)
freshman_weightings(fs, bs, from, to, n) ==
  IF from > to THEN 0
  ELSE (IF \/ bs[from].first_fencer = n /\ ~fs[bs[from].second_fencer].freshman
           \/ bs[from].second_fencer = n /\ ~fs[bs[from].first_fencer].freshman
        THEN bout_weighting(bs[from]) ELSE 0)
       + freshman_weightings(fs, bs, from + 1, to, n)

(***************************************************************************)
(* C30: the accumulators of a freshman are never reset between passes:     *)
(* when calculate_felo_ratings has run n full passes over the bouts (at    *)
(* the end of every pass, and when the call has ended), a freshman's       *)
(* total_weighting equals its initial total weighting plus n times the sum *)
(* of the weightings of its bouts against opponents that are not freshmen, *)
(* and no step of a call ever decreases it.                                *)
(***************************************************************************)
FreshmanWeightingAccumulates ==
  [][/\ pc' \in {"check", "final", "return", "done", "raised"}
          => \A n \in DOMAIN fencers' :
               fencers'[n].freshman
               => fencers'[n].total_weighting
                    = fencers'[n].initial_total_weighting
                        + passes' * freshman_weightings(fencers', bouts', 1,
                                                        Len(bouts'), n)
     /\ pc \notin {"idle", "done", "raised"}
          => \A n \in DOMAIN fencers :
               fencers[n].freshman
               => fencers'[n].total_weighting >= fencers[n].total_weighting]_vars

\* C30, witness: a call has ended, without convergence, after three
\* passes, and a freshman with an initial total weighting has gained the
\* weighting of its bouts against rated opponents once in every pass.
FreshmanWeightingAccumulated ==
  /\ pc = "raised"
  /\ outcome = "BootstrappingError"
  /\ passes >= 3
  /\ \E n \in DOMAIN fencers :
       /\ fencers[n].freshman
       /\ fencers[n].initial_total_weighting > 0
       /\ freshman_weightings(fencers, bouts, 1, Len(bouts), n) > 0
       /\ fencers[n].total_weighting
            = fencers[n].initial_total_weighting
                + passes * freshman_weightings(fencers, bouts, 1, Len(bouts), n)
====
